---- MODULE Spec2Model ----
(***************************************************************************)
(* Model of fastmail-mcp: the tool dispatcher (CallToolRequestSchema       *)
(* handler), the JMAP client (session memoisation, batched method calls)   *)
(* and the CalDAV calendar client.  One action is one tool invocation or    *)
(* one direct call of an exported client method; the host serialises       *)
(* invocations, so a handler runs from entry to return as one step.  The   *)
(* remote endpoints are the environment: HTTP statuses and the mail store  *)
(* they answer from are chosen nondeterministically per invocation.        *)
(* The ICS parser is modelled on character sequences; SpecICS applies it   *)
(* and the client's two reading operations to texts drawn from bounded     *)
(* sets.                                                                   *)
(***************************************************************************)
EXTENDS Integers, Sequences, FiniteSets, TLC

(***************************************************************************)
(* JavaScript values.  A value that may be undefined is an optional:       *)
(* None is undefined, Some(x) is x.  Arrays are sequences; source indices  *)
(* are zero-based, At keeps them.                                          *)
(***************************************************************************)
None == <<>>
Some(x) == <<x>>
IsSome(v) == Len(v) > 0
Val(v) == v[1]
\* truthiness of an optional string: undefined and "" are falsy
Truthy(v) == IsSome(v) /\ Val(v) # ""
\* a default parameter value (x = d) applies only to undefined
Default(v, d) == IF IsSome(v) THEN Val(v) ELSE d
At(s, i) == s[i + 1]
\* obj.f, undefined when obj has no property f
Prop(obj, f) == IF f \in DOMAIN obj THEN Some(obj[f]) ELSE None
\* Math.min / Math.max
Min(a, b) == IF a <= b THEN a ELSE b
Max(a, b) == IF a >= b THEN a ELSE b
ToSet(s) == {s[i] : i \in DOMAIN s}
\* the object literal {}
EmptyObject == [k \in {} |-> TRUE]
\* Array.prototype.slice(0, n) for n >= 0
Slice0(s, n) == SubSeq(s, 1, Min(Len(s), Max(n, 0)))
\* Array.prototype.find: the first element satisfying P, or undefined
Find(s, P(_)) ==
  LET hits == {i \in DOMAIN s : P(s[i])}
  IN IF hits = {} THEN None
     ELSE Some(s[CHOOSE i \in hits : \A j \in hits : i <= j])
\* Array.prototype.map
Map(s, F(_)) == [i \in DOMAIN s |-> F(s[i])]

(***************************************************************************)
(* Bounds of the model.                                                    *)
(***************************************************************************)
\* the largest caller-supplied limit tried, one above the largest ceiling
MaxLimit == 101
\* the largest number of email IDs in one bulk call
MaxIds == 2

(***************************************************************************)
(* Strings the code lower-cases and searches.  TLC's strings are atomic,   *)
(* so toLowerCase and includes are tabulated over the strings in use.      *)
(***************************************************************************)
toLowerCase(s) ==
  CASE s = "Inbox" -> "inbox"
    [] s = "Drafts" -> "drafts"
    [] s = "My Drafts" -> "my drafts"
    [] s = "Sent Items" -> "sent items"
    [] s = "Trash Can" -> "trash can"
    [] s = "Archive" -> "archive"
    [] s = "Sent" -> "sent"
    [] s = "ME@EXAMPLE.COM" -> "me@example.com"
    [] s = "Alias@Example.com" -> "alias@example.com"
    [] OTHER -> s
\* hay.includes(needle), both already lower case
includes(hay, needle) ==
  \/ hay = needle
  \/ needle = ""
  \/ <<hay, needle>> \in { <<"drafts", "draft">>, <<"my drafts", "draft">>,
                           <<"my drafts", "drafts">>,
                           <<"sent items", "sent">>, <<"trash can", "trash">>,
                           <<"inbox", "box">> }

(***************************************************************************)
(* The remote JMAP endpoint.  It answers a batch positionally: one         *)
(* [name, result, callId] entry per method call, in call order, resolving  *)
(* back-references against the entries already produced (RFC 8620 3.7);    *)
(* an EmailSubmission/set carrying onSuccessUpdateEmail is followed by the *)
(* response of its implicit Email/set (RFC 8621 7.5).  The store it        *)
(* answers from is the oracle o, chosen per invocation.                    *)
(***************************************************************************)
Mailbox(id, name, role) == [id |-> id, name |-> name, role |-> role]
MB_inbox == Mailbox("mbInbox", "Inbox", Some("inbox"))
MB_drafts == Mailbox("mbDrafts", "Drafts", Some("drafts"))
MB_sent == Mailbox("mbSent", "Sent Items", Some("sent"))
MB_trash == Mailbox("mbTrash", "Trash Can", Some("trash"))
\* the same folders on a server that reports no roles
MB_draftsNoRole == Mailbox("mbDrafts", "My Drafts", None)
MB_sentNoRole == Mailbox("mbSent", "Sent Items", None)
MB_trashNoRole == Mailbox("mbTrash", "Trash Can", None)
MB_archive == Mailbox("mbArchive", "Archive", Some("archive"))

MailboxesFull == <<MB_inbox, MB_drafts, MB_sent, MB_trash>>
MailboxesNoRoles == <<MB_inbox, MB_draftsNoRole, MB_sentNoRole, MB_trashNoRole>>
MailboxesNoDrafts == <<MB_inbox, MB_sent, MB_trash>>
MailboxesNoSent == <<MB_inbox, MB_drafts, MB_trash>>
MailboxesNoTrash == <<MB_inbox, MB_drafts, MB_sent>>
MailboxesNoInbox == <<MB_archive, MB_trash>>

Attachment(partId, blobId) ==
  [partId |-> partId, blobId |-> blobId, type |-> "application/pdf", name |-> "a.pdf"]
Email(id, threadId, atts) ==
  [id |-> id, threadId |-> threadId, subject |-> "s", attachments |-> atts]
StoreEmails == << Email("e1", "t1", <<Attachment("p1", "b1")>>),
                  Email("e2", "t1", <<>>) >>
EmailIds == {"e1", "e2", "e3"}

Identity(id, email, mayDelete) == [id |-> id, email |-> email, mayDelete |-> mayDelete]
ID_alias == Identity("i1", "Alias@Example.com", TRUE)
ID_main == Identity("i2", "me@example.com", FALSE)

\* the emails of the store with the given ids, in the order asked
RECURSIVE EmailsById(_, _)
EmailsById(store, ids) ==
  IF ids = <<>> THEN <<>>
  ELSE LET hit == Find(store, LAMBDA e : e.id = Head(ids))
       IN (IF IsSome(hit) THEN <<Val(hit)>> ELSE <<>>) \o EmailsById(store, Tail(ids))
RECURSIVE IdsNotIn(_, _)
IdsNotIn(store, ids) ==
  IF ids = <<>> THEN <<>>
  ELSE (IF \E i \in DOMAIN store : store[i].id = Head(ids) THEN <<>> ELSE <<Head(ids)>>)
       \o IdsNotIn(store, Tail(ids))
\* the distinct thread ids of the store and the emails of each
ThreadOf(store, tid) ==
  [id |-> tid, emailIds |-> LET RECURSIVE Ids(_)
                                Ids(s) == IF s = <<>> THEN <<>>
                                          ELSE (IF Head(s).threadId = tid THEN <<Head(s).id>> ELSE <<>>)
                                               \o Ids(Tail(s))
                            IN Ids(store)]
RECURSIVE ThreadsById(_, _)
ThreadsById(store, ids) ==
  IF ids = <<>> THEN <<>>
  ELSE (IF \E i \in DOMAIN store : store[i].threadId = Head(ids)
        THEN <<ThreadOf(store, Head(ids))>> ELSE <<>>)
       \o ThreadsById(store, Tail(ids))
RECURSIVE ThreadIdsNotIn(_, _)
ThreadIdsNotIn(store, ids) ==
  IF ids = <<>> THEN <<>>
  ELSE (IF \E i \in DOMAIN store : store[i].threadId = Head(ids) THEN <<>> ELSE <<Head(ids)>>)
       \o ThreadIdsNotIn(store, Tail(ids))
RECURSIVE Flatten(_)
Flatten(ss) == IF ss = <<>> THEN <<>> ELSE Head(ss) \o Flatten(Tail(ss))

MethodError(type) == [type |-> type]

\* the value a back-reference {resultOf, name, path} denotes, undefined when
\* it names no earlier successful response
ResolveReference(done, ref) ==
  LET src == Find(done, LAMBDA r : r[3] = ref.resultOf /\ r[1] = ref.name)
  IN IF ~IsSome(src) THEN None
     ELSE IF ref.path = "/ids" THEN Prop(Val(src)[2], "ids")
     ELSE IF ref.path = "/list/*/emailIds"
          THEN IF "list" \in DOMAIN Val(src)[2]
               THEN Some(Flatten(Map(Val(src)[2].list, LAMBDA t : t.emailIds)))
               ELSE None
     ELSE None

\* the ids argument of a /get call: literal, back-referenced ('#ids', written
\* ids_ref since a field name is an identifier), or absent
GetIds(done, args) ==
  IF "ids_ref" \in DOMAIN args THEN ResolveReference(done, args.ids_ref)
  ELSE Prop(args, "ids")

\* the result object of one method call
MethodResult(o, done, call) ==
  LET name == call[1]
      args == call[2]
  IN CASE name = "Mailbox/get" ->
            IF "ids" \in DOMAIN args
            THEN [list |-> SelectSeq(o.mailboxes, LAMBDA m : m.id \in ToSet(args.ids)),
                  notFound |-> SelectSeq(args.ids,
                      LAMBDA i : \A k \in DOMAIN o.mailboxes : o.mailboxes[k].id # i)]
            ELSE [list |-> o.mailboxes, notFound |-> <<>>]
       [] name = "Identity/get" -> [list |-> o.identities, notFound |-> <<>>]
       [] name = "Email/query" ->
            [ids |-> IF "limit" \in DOMAIN args THEN Slice0(o.matches, args.limit)
                     ELSE o.matches]
       [] name = "Email/get" ->
            LET ids == GetIds(done, args)
            IN IF ~IsSome(ids) THEN MethodError("invalidResultReference")
               ELSE [list |-> EmailsById(o.emails, Val(ids)),
                     notFound |-> IdsNotIn(o.emails, Val(ids))]
       [] name = "Thread/get" ->
            [list |-> ThreadsById(o.emails, args.ids),
             notFound |-> ThreadIdsNotIn(o.emails, args.ids)]
       [] name = "Email/set" ->
            IF "create" \in DOMAIN args
            THEN IF o.createFails
                 THEN [created |-> None,
                       notCreated |-> Some([k \in DOMAIN args.create |-> MethodError("invalidProperties")])]
                 ELSE [created |-> Some([k \in DOMAIN args.create |-> [id |-> "eNew"]]),
                       notCreated |-> None]
            ELSE LET bad == DOMAIN args.update \cap o.notUpdated
                 IN [updated |-> IF DOMAIN args.update \ bad = {} THEN None
                                 ELSE Some([k \in DOMAIN args.update \ bad |-> None]),
                     notUpdated |-> IF bad = {} THEN None
                                    ELSE Some([k \in bad |-> MethodError("notFound")])]
       [] name = "EmailSubmission/set" ->
            CASE o.submission = "created" /\ ~o.createFails ->
                   [created |-> Some([k \in DOMAIN args.create |-> [id |-> "subNew"]]),
                    notCreated |-> None]
              [] o.submission = "error" -> MethodError("forbidden")
              [] OTHER ->
                   [created |-> None,
                    notCreated |-> Some([k \in DOMAIN args.create |-> MethodError("invalidEmail")])]
       [] OTHER -> MethodError("unknownMethod")

IsMethodError(result) == DOMAIN result = {"type"}

\* the response entries one call produces, result the call's result object
EntriesOf(call, result) ==
  IF /\ call[1] = "EmailSubmission/set"
     /\ "onSuccessUpdateEmail" \in DOMAIN call[2]
     /\ ~IsMethodError(result)
     /\ IsSome(result.created)
  THEN << <<call[1], result, call[3]>>,
          <<"Email/set", [updated |-> Some([k \in {"eNew"} |-> None]),
                          notUpdated |-> None], call[3]>> >>
  ELSE << <<IF IsMethodError(result) THEN "error" ELSE call[1], result, call[3]>> >>
MethodResponses(o, done, call) == EntriesOf(call, MethodResult(o, done, call))

RECURSIVE Respond(_, _, _)
Respond(o, calls, done) ==
  IF calls = <<>> THEN done
  ELSE Respond(o, Tail(calls), done \o MethodResponses(o, done, Head(calls)))


(***************************************************************************)
(* Results of the asynchronous operations.  An operation takes the         *)
(* invocation context ctx (the process environment, the client's memoised  *)
(* session, the network requests made so far in this invocation, the       *)
(* response entries read so far) and returns the context it leaves, with   *)
(* either the value it resolves to or the error it throws.                 *)
(***************************************************************************)
NoError == [mcp |-> FALSE, code |-> "", message |-> <<>>]
Error(message) == [mcp |-> FALSE, code |-> "Error", message |-> message]
McpError(code, message) == [mcp |-> TRUE, code |-> code, message |-> message]
Ok(ctx, val) == [ctx |-> ctx, ok |-> TRUE, err |-> NoError, val |-> val]
\* throw err: the rejection, the error recorded among those thrown so far
Err(ctx, err) ==
  [ctx |-> [ctx EXCEPT !.thrown = Append(@, err)], ok |-> FALSE, err |-> err, val |-> None]
\* a property read or a call on undefined
TypeError(ctx) == Err(ctx, Error(<<"TypeError">>))
\* const r = await ...: a rejection propagates, else the rest K runs on r
Bind(r, K(_)) == IF ~r.ok THEN r ELSE K(r)
\* const v = ...
Let(v, K(_)) == K(v)

USING_MAIL == <<"urn:ietf:params:jmap:core", "urn:ietf:params:jmap:mail">>
USING_SUBMISSION == <<"urn:ietf:params:jmap:core", "urn:ietf:params:jmap:submission">>
USING_MAIL_SUBMISSION ==
  <<"urn:ietf:params:jmap:core", "urn:ietf:params:jmap:mail", "urn:ietf:params:jmap:submission">>
SORT_RECEIVED_DESC == <<[property |-> "receivedAt", isAscending |-> FALSE]>>

NumPosts(net) == Cardinality({i \in DOMAIN net : net[i].kind = "POST"})

\* resolveAccountId preferring the session document to the environment
resolveAccountId_docFirst(envAccountId, sessionData) ==
  IF Truthy(sessionData.primaryMail) THEN sessionData.primaryMail
  ELSE IF Truthy(envAccountId) THEN envAccountId
  ELSE IF Len(sessionData.accounts) > 0 THEN Some(sessionData.accounts[1])
  ELSE None

\* process.env.FASTMAIL_ACCOUNT_ID || primaryAccounts?.[mail] || Object.keys(accounts)[0]
resolveAccountId(envAccountId, sessionData) ==
  IF Truthy(envAccountId) THEN envAccountId
  ELSE IF Truthy(sessionData.primaryMail) THEN sessionData.primaryMail
  ELSE IF Len(sessionData.accounts) > 0 THEN Some(sessionData.accounts[1])
  ELSE None

\* the session object built from the session document
sessionOf(envAccountId, sessionData) ==
  [apiUrl |-> sessionData.apiUrl,
   accountId |-> resolveAccountId(envAccountId, sessionData),
   capabilities |-> sessionData.capabilities,
   downloadUrl |-> sessionData.downloadUrl,
   uploadUrl |-> sessionData.uploadUrl]

\* the GET of the session URL and what follows it
fetchSession(ctx, o) ==
  IF ~o.sessOk THEN Err(ctx, Error(<<"Failed to get session: ", "statusText">>))
  ELSE Ok([ctx EXCEPT !.session = Some(sessionOf(ctx.env.FASTMAIL_ACCOUNT_ID, o.doc)),
                      !.gets = @ + 1],
          sessionOf(ctx.env.FASTMAIL_ACCOUNT_ID, o.doc))

\* getSession without the memo check
getSession_refetch(ctx, o) ==
  fetchSession([ctx EXCEPT !.net = Append(@, [kind |-> "GET", url |-> "sessionUrl",
                                               ok |-> o.sessOk,
                                               doc |-> IF o.sessOk THEN Some(o.doc)
                                                       ELSE None])], o)

getSession(ctx, o) ==
  IF IsSome(ctx.session) THEN Ok(ctx, Val(ctx.session))
  ELSE fetchSession([ctx EXCEPT !.net = Append(@, [kind |-> "GET", url |-> "sessionUrl",
                                                   ok |-> o.sessOk,
                                                   doc |-> IF o.sessOk THEN Some(o.doc)
                                                           ELSE None])], o)

\* post handing the caller a response whatever the HTTP status
post_anyStatus(ctx, o, apiUrl, request, ok) ==
  Ok([ctx EXCEPT !.net = Append(@,
        [kind |-> "POST", url |-> apiUrl, body |-> request, ok |-> ok,
         response |-> IF ok THEN Some([methodResponses |-> Respond(o, request.methodCalls, <<>>),
                                       sessionState |-> "state"])
                      ELSE None])],
     [methodResponses |-> IF ok THEN Respond(o, request.methodCalls, <<>>) ELSE <<>>,
      sessionState |-> "state"])

\* the POST of one batch to session.apiUrl, ok its HTTP status
post(ctx, o, apiUrl, request, ok) ==
  Let([ctx EXCEPT !.net = Append(@,
         [kind |-> "POST", url |-> apiUrl, body |-> request, ok |-> ok,
          response |-> IF ok THEN Some([methodResponses |-> Respond(o, request.methodCalls, <<>>),
                                        sessionState |-> "state"])
                       ELSE None])],
      LAMBDA c1 : IF ~ok THEN Err(c1, Error(<<"JMAP request failed: ", "statusText">>))
                  ELSE Ok(c1, Val(c1.net[Len(c1.net)].response)))

makeRequest(ctx, o, request) ==
  Bind(getSession(ctx, o), LAMBDA s :
    post(s.ctx, o, s.val.apiUrl, request, (NumPosts(s.ctx.net) + 1) \notin o.fail))

\* response.methodResponses[i]
methodResponse(response, i) ==
  IF i < Len(response.methodResponses) THEN Some(At(response.methodResponses, i)) ELSE None

\* the entry e read at an index, logged with the method whose result the
\* caller takes it for
Logged(r, i, e, want) ==
  [ctx |-> [r.ctx EXCEPT !.reads = Append(@,
              [post |-> Len(r.ctx.net), index |-> i, want |-> want,
               name |-> IF IsSome(e) THEN Val(e)[1] ELSE "",
               callId |-> IF IsSome(e) THEN Val(e)[3] ELSE ""])],
   defined |-> IsSome(e),
   result |-> IF IsSome(e) THEN Val(e)[2] ELSE [type |-> "undefined"]]
\* response.methodResponses[i][1], r the resolved makeRequest
ReadResult(r, i, want) == Logged(r, i, methodResponse(r.val, i), want)

\* ReturnList reading the first entry whatever call produced the list
ReturnList_first(r, i, want) ==
  Let(ReadResult(r, 0, want), LAMBDA rd :
    IF ~rd.defined THEN TypeError(rd.ctx) ELSE Ok(rd.ctx, Prop(rd.result, "list")))

\* ....methodResponses[i][1].list as the operation's value
ReturnList(r, i, want) ==
  Let(ReadResult(r, i, want), LAMBDA rd :
    IF ~rd.defined THEN TypeError(rd.ctx) ELSE Ok(rd.ctx, Prop(rd.result, "list")))

getMailboxes(ctx, o) ==
  Bind(getSession(ctx, o), LAMBDA s :
  Bind(makeRequest(s.ctx, o,
         [using |-> USING_MAIL,
          methodCalls |-> << <<"Mailbox/get", [accountId |-> s.val.accountId],
                               "mailboxes">> >>]), LAMBDA r :
  ReturnList(r, 0, "Mailbox/get")))

EMAIL_LIST_PROPERTIES ==
  <<"id", "subject", "from", "to", "receivedAt", "preview", "hasAttachment">>
IDS_OF_QUERY == [resultOf |-> "query", name |-> "Email/query", path |-> "/ids"]

getEmails(ctx, o, mailboxId, limitArg) ==
  Bind(getSession(ctx, o), LAMBDA s :
  Bind(makeRequest(s.ctx, o,
         [using |-> USING_MAIL,
          methodCalls |-> <<
            <<"Email/query", [accountId |-> s.val.accountId,
                              filter |-> IF Truthy(mailboxId) THEN [inMailbox |-> Val(mailboxId)]
                                         ELSE EmptyObject,
                              sort |-> SORT_RECEIVED_DESC,
                              limit |-> Default(limitArg, 20)], "query">>,
            <<"Email/get", [accountId |-> s.val.accountId,
                            ids_ref |-> IDS_OF_QUERY,
                            properties |-> EMAIL_LIST_PROPERTIES], "emails">> >>]), LAMBDA r :
  ReturnList(r, 1, "Email/get")))

\* result.list[0]: threw when list is undefined, else the head or undefined
ListHead(result) ==
  LET l == Prop(result, "list")
  IN [threw |-> ~IsSome(l),
      v |-> IF IsSome(l) /\ Len(Val(l)) > 0 THEN Some(Val(l)[1]) ELSE None]
\* result.notFound && result.notFound.includes(id)
NotFoundIncludes(result, id) ==
  LET nf == Prop(result, "notFound") IN IsSome(nf) /\ id \in ToSet(Val(nf))
\* result.f && result.f[key], f one of notCreated / notUpdated (null when empty)
FailedFor(result, f, key) ==
  LET m == Prop(result, f) IN IsSome(m) /\ IsSome(Val(m)) /\ key \in DOMAIN Val(Val(m))
\* result.notUpdated && Object.keys(result.notUpdated).length > 0
AnyNotUpdated(result) ==
  LET m == Prop(result, "notUpdated")
  IN IsSome(m) /\ IsSome(Val(m)) /\ DOMAIN Val(Val(m)) # {}

\* getEmailById after the response arrived (lines 145-156)
emailOf(rd, h, id) ==
  IF ~rd.defined THEN TypeError(rd.ctx)
  ELSE IF NotFoundIncludes(rd.result, id)
       THEN Err(rd.ctx, Error(<<"Email with ID '", id, "' not found">>))
  ELSE IF h.threw THEN TypeError(rd.ctx)
  ELSE IF ~IsSome(h.v)
       THEN Err(rd.ctx, Error(<<"Email with ID '", id, "' not found or not accessible">>))
  ELSE Ok(rd.ctx, Val(h.v))

getEmailById(ctx, o, id) ==
  Bind(getSession(ctx, o), LAMBDA s :
  Bind(makeRequest(s.ctx, o,
         [using |-> USING_MAIL,
          methodCalls |-> << <<"Email/get",
              [accountId |-> s.val.accountId,
               ids |-> <<id>>,
               properties |-> <<"id", "subject", "from", "to", "cc", "bcc", "receivedAt",
                                "textBody", "htmlBody", "attachments", "bodyValues">>,
               bodyProperties |-> <<"partId", "blobId", "type", "size">>,
               fetchTextBodyValues |-> TRUE,
               fetchHTMLBodyValues |-> TRUE], "email">> >>]), LAMBDA r :
  Let(ReadResult(r, 0, "Email/get"), LAMBDA rd : emailOf(rd, ListHead(rd.result), id))))

getIdentities(ctx, o) ==
  Bind(getSession(ctx, o), LAMBDA s :
  Bind(makeRequest(s.ctx, o,
         [using |-> USING_SUBMISSION,
          methodCalls |-> << <<"Identity/get", [accountId |-> s.val.accountId],
                               "identities">> >>]), LAMBDA r :
  ReturnList(r, 0, "Identity/get")))

\* identities.find(id => id.mayDelete === false) || identities[0]
defaultIdentityOf(identities) ==
  LET d == Find(identities, LAMBDA id : id.mayDelete = FALSE)
  IN IF IsSome(d) THEN d
     ELSE IF Len(identities) > 0 THEN Some(identities[1]) ELSE None

getDefaultIdentity(ctx, o) ==
  Bind(getIdentities(ctx, o), LAMBDA r :
    IF ~IsSome(r.val) THEN TypeError(r.ctx)
    ELSE Ok(r.ctx, defaultIdentityOf(Val(r.val))))

\* mailboxes.find(mb => mb.role === role) ||
\* mailboxes.find(mb => mb.name.toLowerCase().includes(word))
findMailbox(mailboxes, role, word) ==
  LET byRole == Find(mailboxes, LAMBDA mb : mb.role = Some(role))
  IN IF IsSome(byRole) THEN byRole
     ELSE Find(mailboxes, LAMBDA mb : includes(toLowerCase(mb.name), word))

\* { [id]: true }
IdMap(id) == [k \in {id} |-> TRUE]
KEYWORDS_DRAFT == [k \in {"$draft"} |-> TRUE]
KEYWORDS_SEEN == [k \in {"$seen"} |-> TRUE]
Addresses(list) == Map(list, LAMBDA addr : [email |-> addr])

\* the draft sendEmail creates
emailObject(email, fromEmail, initialMailboxId) ==
  [mailboxIds |-> IdMap(initialMailboxId),
   keywords |-> KEYWORDS_DRAFT,
   from |-> <<[email |-> fromEmail]>>,
   to |-> Addresses(email.to),
   cc |-> IF IsSome(email.cc) THEN Addresses(Val(email.cc)) ELSE <<>>,
   bcc |-> IF IsSome(email.bcc) THEN Addresses(Val(email.bcc)) ELSE <<>>,
   subject |-> email.subject,
   textBody |-> IF Truthy(email.textBody)
                THEN Some(<<[partId |-> "text", type |-> "text/plain"]>>) ELSE None,
   htmlBody |-> IF Truthy(email.htmlBody)
                THEN Some(<<[partId |-> "html", type |-> "text/html"]>>) ELSE None,
   bodyValues |-> [k \in (IF Truthy(email.textBody) THEN {"text"} ELSE {})
                         \cup (IF Truthy(email.htmlBody) THEN {"html"} ELSE {}) |->
                     [value |-> IF k = "text" THEN Val(email.textBody)
                                ELSE Val(email.htmlBody)]]]

\* sendEmailRequest submitting the draft by a literal id and leaving the
\* submitted email in its first mailbox as well
sendEmailRequest_twoSteps(accountId, email, selectedIdentity, initialMailboxId, sentMailboxId) ==
  [using |-> USING_MAIL_SUBMISSION,
   methodCalls |-> <<
     <<"Email/set",
       [accountId |-> accountId,
        create |-> [draft |-> emailObject(email, selectedIdentity.email, initialMailboxId)]],
       "createEmail">>,
     <<"EmailSubmission/set",
       [accountId |-> accountId,
        create |-> [submission |->
                      [emailId |-> "draft",
                       identityId |-> selectedIdentity.id,
                       envelope |-> [mailFrom |-> [email |-> selectedIdentity.email],
                                     rcptTo |-> Addresses(email.to)]]],
        onSuccessUpdateEmail |->
          [k \in {"#submission"} |->
             [mailboxIds |-> [m \in {initialMailboxId, sentMailboxId} |-> TRUE],
              keywords |-> KEYWORDS_SEEN]]],
       "submitEmail">> >>]

\* the create-then-submit batch of sendEmail
sendEmailRequest(accountId, email, selectedIdentity, initialMailboxId, sentMailboxId) ==
  [using |-> USING_MAIL_SUBMISSION,
   methodCalls |-> <<
     <<"Email/set",
       [accountId |-> accountId,
        create |-> [draft |-> emailObject(email, selectedIdentity.email, initialMailboxId)]],
       "createEmail">>,
     <<"EmailSubmission/set",
       [accountId |-> accountId,
        create |-> [submission |->
                      [emailId |-> "#draft",
                       identityId |-> selectedIdentity.id,
                       envelope |-> [mailFrom |-> [email |-> selectedIdentity.email],
                                     rcptTo |-> Addresses(email.to)]]],
        onSuccessUpdateEmail |->
          [k \in {"#submission"} |-> [mailboxIds |-> IdMap(sentMailboxId),
                                      keywords |-> KEYWORDS_SEEN]]],
       "submitEmail">> >>]

\* submissionResult.created?.submission?.id || 'unknown'
submissionIdOf(result) ==
  LET c == Prop(result, "created")
  IN IF IsSome(c) /\ IsSome(Val(c)) /\ "submission" \in DOMAIN Val(Val(c))
     THEN Val(Val(c)).submission.id
     ELSE "unknown"

\* sendEmail once the batch is answered (lines 288-302)
submissionOf(emailRd, subRd) ==
  IF ~emailRd.defined THEN TypeError(emailRd.ctx)
  ELSE IF FailedFor(emailRd.result, "notCreated", "draft")
  THEN Err(emailRd.ctx, Error(<<"Failed to create email. Please check inputs and try again.">>))
  ELSE IF ~subRd.defined THEN TypeError(subRd.ctx)
  ELSE IF FailedFor(subRd.result, "notCreated", "submission")
  THEN Err(subRd.ctx, Error(<<"Failed to submit email. Please try again later.">>))
  ELSE Ok(subRd.ctx, submissionIdOf(subRd.result))

\* sendEmail from the mailboxes found on (lines 222-303)
sendEmailVia(ctx, o, session, email, selectedIdentity, draftsMailbox, sentMailbox) ==
  IF ~IsSome(draftsMailbox)
  THEN Err(ctx, Error(<<"Could not find Drafts mailbox to save email">>))
  ELSE IF ~IsSome(sentMailbox)
  THEN Err(ctx, Error(<<"Could not find Sent mailbox to move email after sending">>))
  ELSE IF ~Truthy(email.textBody) /\ ~Truthy(email.htmlBody)
  THEN Err(ctx, Error(<<"Either textBody or htmlBody must be provided">>))
  ELSE
    Bind(makeRequest(ctx, o,
           sendEmailRequest(session.accountId, email, selectedIdentity,
                            IF Truthy(email.mailboxId) THEN Val(email.mailboxId)
                            ELSE Val(draftsMailbox).id,
                            Val(sentMailbox).id)), LAMBDA r :
    Let(ReadResult(r, 0, "Email/set"), LAMBDA emailRd :
      submissionOf(emailRd,
                   ReadResult([r EXCEPT !.ctx = emailRd.ctx], 1, "EmailSubmission/set"))))

\* sendEmail from the mailbox lookup on (lines 217-303)
sendEmailFrom(ctx, o, session, email, selectedIdentity) ==
  Bind(getMailboxes(ctx, o), LAMBDA mb :
    IF ~IsSome(mb.val) THEN TypeError(mb.ctx)
    ELSE sendEmailVia(mb.ctx, o, session, email, selectedIdentity,
                      findMailbox(Val(mb.val), "drafts", "draft"),
                      findMailbox(Val(mb.val), "sent", "sent")))

\* the identity chosen with a fallback to the default one for a from address
\* that matches no identity
selectIdentity_fallback(identities, email) ==
  LET found == Find(identities, LAMBDA id :
                      toLowerCase(id.email) = toLowerCase(Default(email.from, "")))
  IN IF IsSome(found) THEN found ELSE defaultIdentityOf(identities)
\* the identity sendEmail sends as (lines 200-215)
selectIdentity(identities, email) ==
  IF Truthy(email.from)
  THEN Find(identities, LAMBDA id : toLowerCase(id.email) = toLowerCase(Val(email.from)))
  ELSE defaultIdentityOf(identities)

sendEmail(ctx, o, email) ==
  Bind(getSession(ctx, o), LAMBDA s :
  Bind(getIdentities(s.ctx, o), LAMBDA ids :
    IF ~IsSome(ids.val) \/ Len(Val(ids.val)) = 0
    THEN Err(ids.ctx, Error(<<"No sending identities found">>))
    ELSE Let(selectIdentity(Val(ids.val), email), LAMBDA selectedIdentity :
           IF ~IsSome(selectedIdentity)
           THEN Err(ids.ctx, Error(<<"From address is not verified for sending. ",
                                     "Choose one of your verified identities.">>))
           ELSE sendEmailFrom(ids.ctx, o, s.val, email, Val(selectedIdentity)))))


\* the ceilings of Math.min(limit, 50) and Math.min(filters.limit || 50, 100)
RECENT_LIMIT_CEILING == 50
SEARCH_LIMIT_CEILING == 100

EMAIL_RECENT_PROPERTIES ==
  <<"id", "subject", "from", "to", "receivedAt", "preview", "hasAttachment", "keywords">>
EMAIL_SEARCH_PROPERTIES ==
  <<"id", "subject", "from", "to", "cc", "receivedAt", "preview", "hasAttachment",
    "keywords", "threadId">>

getRecentEmails(ctx, o, limitArg, mailboxNameArg) ==
  LET limit == Default(limitArg, 10)
      mailboxName == Default(mailboxNameArg, "inbox")
  IN
  Bind(getSession(ctx, o), LAMBDA s :
  Bind(getMailboxes(s.ctx, o), LAMBDA mb :
    IF ~IsSome(mb.val) THEN TypeError(mb.ctx)
    ELSE
      Let(Find(Val(mb.val), LAMBDA m :
                 \/ m.role = Some(toLowerCase(mailboxName))
                 \/ includes(toLowerCase(m.name), toLowerCase(mailboxName))),
          LAMBDA targetMailbox :
        IF ~IsSome(targetMailbox)
        THEN Err(mb.ctx, Error(<<"Could not find mailbox: ", mailboxName>>))
        ELSE
          Bind(makeRequest(mb.ctx, o,
                 [using |-> USING_MAIL,
                  methodCalls |-> <<
                    <<"Email/query", [accountId |-> s.val.accountId,
                                      filter |-> [inMailbox |-> Val(targetMailbox).id],
                                      sort |-> SORT_RECEIVED_DESC,
                                      limit |-> Min(limit, RECENT_LIMIT_CEILING)], "query">>,
                    <<"Email/get", [accountId |-> s.val.accountId,
                                    ids_ref |-> IDS_OF_QUERY,
                                    properties |-> EMAIL_RECENT_PROPERTIES], "emails">> >>]),
               LAMBDA r : ReturnList(r, 1, "Email/get")))))

\* one Email/set call updating the given emails
updateRequest(accountId, update, callId) ==
  [using |-> USING_MAIL,
   methodCalls |-> << <<"Email/set", [accountId |-> accountId, update |-> update], callId>> >>]

\* the common tail of markEmailRead, deleteEmail and moveEmail
updateOne(ctx, o, request, emailId, failure) ==
  Bind(makeRequest(ctx, o, request), LAMBDA r :
  Let(ReadResult(r, 0, "Email/set"), LAMBDA rd :
    IF ~rd.defined THEN TypeError(rd.ctx)
    ELSE IF FailedFor(rd.result, "notUpdated", emailId) THEN Err(rd.ctx, Error(failure))
    ELSE Ok(rd.ctx, None)))

markEmailRead(ctx, o, emailId, readArg) ==
  LET read == Default(readArg, TRUE)
      keywords == IF read THEN KEYWORDS_SEEN ELSE EmptyObject
  IN
  Bind(getSession(ctx, o), LAMBDA s :
    updateOne(s.ctx, o,
      updateRequest(s.val.accountId, [k \in {emailId} |-> [keywords |-> keywords]],
                    "updateEmail"),
      emailId,
      <<"Failed to mark email as ", IF read THEN "read" ELSE "unread", ".">>))

deleteEmail(ctx, o, emailId) ==
  Bind(getSession(ctx, o), LAMBDA s :
  Bind(getMailboxes(s.ctx, o), LAMBDA mb :
    IF ~IsSome(mb.val) THEN TypeError(mb.ctx)
    ELSE
      Let(findMailbox(Val(mb.val), "trash", "trash"), LAMBDA trashMailbox :
        IF ~IsSome(trashMailbox) THEN Err(mb.ctx, Error(<<"Could not find Trash mailbox">>))
        ELSE updateOne(mb.ctx, o,
               updateRequest(s.val.accountId,
                 [k \in {emailId} |-> [mailboxIds |-> IdMap(Val(trashMailbox).id)]],
                 "moveToTrash"),
               emailId, <<"Failed to delete email.">>))))

moveEmail(ctx, o, emailId, targetMailboxId) ==
  Bind(getSession(ctx, o), LAMBDA s :
    updateOne(s.ctx, o,
      updateRequest(s.val.accountId,
        [k \in {emailId} |-> [mailboxIds |-> IdMap(targetMailboxId)]], "moveEmail"),
      emailId, <<"Failed to move email.">>))

\* the first entry's result and its list[0], handed to the rest K
ReadHead(r, want, K(_, _)) ==
  Let(ReadResult(r, 0, want), LAMBDA rd : K(rd, ListHead(rd.result)))

getEmailAttachments(ctx, o, emailId) ==
  Bind(getSession(ctx, o), LAMBDA s :
  Bind(makeRequest(s.ctx, o,
         [using |-> USING_MAIL,
          methodCalls |-> << <<"Email/get", [accountId |-> s.val.accountId,
                                             ids |-> <<emailId>>,
                                             properties |-> <<"attachments">>],
                               "getAttachments">> >>]), LAMBDA r :
  ReadHead(r, "Email/get", LAMBDA rd, h :
    IF ~rd.defined \/ h.threw THEN TypeError(rd.ctx)
    ELSE Ok(rd.ctx, IF IsSome(h.v) THEN Val(h.v).attachments ELSE <<>>))))

\* parseInt over the attachment ids in use: the number, or NaN (undefined)
parseInt(str) ==
  CASE str = "0" -> Some(0)
    [] str = "1" -> Some(1)
    [] OTHER -> None

\* the attachment found by partId or blobId, else by array index
findAttachment(atts, attachmentId) ==
  LET byId == Find(atts, LAMBDA att : att.partId = attachmentId \/ att.blobId = attachmentId)
      index == parseInt(attachmentId)
  IN IF IsSome(byId) THEN byId
     ELSE IF IsSome(index) /\ Val(index) < Len(atts) THEN Some(At(atts, Val(index)))
     ELSE None

downloadAttachment(ctx, o, emailId, attachmentId) ==
  Bind(getSession(ctx, o), LAMBDA s :
  Bind(makeRequest(s.ctx, o,
         [using |-> USING_MAIL,
          methodCalls |-> << <<"Email/get",
              [accountId |-> s.val.accountId,
               ids |-> <<emailId>>,
               properties |-> <<"attachments", "bodyValues">>,
               bodyProperties |-> <<"partId", "blobId", "size", "name", "type">>],
              "getEmail">> >>]), LAMBDA r :
  ReadHead(r, "Email/get", LAMBDA rd, h :
    IF ~rd.defined \/ h.threw THEN TypeError(rd.ctx)
    ELSE IF ~IsSome(h.v) THEN Err(rd.ctx, Error(<<"Email not found">>))
    ELSE
      Let(findAttachment(Val(h.v).attachments, attachmentId), LAMBDA attachment :
        IF ~IsSome(attachment) THEN Err(rd.ctx, Error(<<"Attachment not found.">>))
        ELSE IF ~Truthy(s.val.downloadUrl)
        THEN Err(rd.ctx, Error(<<"Download capability not available in session">>))
        ELSE Ok(rd.ctx, [template |-> Val(s.val.downloadUrl),
                         accountId |-> s.val.accountId,
                         blobId |-> Val(attachment).blobId,
                         type |-> Val(attachment).type,
                         name |-> Val(attachment).name])))))

\* the filter as lines 518-529 alone leave it, without the override of 532-535
advancedSearchFilter_noOverride(filters) ==
  LET keys == (IF Truthy(filters.query) THEN {"text"} ELSE {})
             \cup (IF Truthy(filters.from) THEN {"from"} ELSE {})
             \cup (IF Truthy(filters.to) THEN {"to"} ELSE {})
             \cup (IF Truthy(filters.subject) THEN {"subject"} ELSE {})
             \cup (IF IsSome(filters.hasAttachment) THEN {"hasAttachment"} ELSE {})
             \cup (IF IsSome(filters.isUnread) THEN {"hasKeyword"} ELSE {})
             \cup (IF Truthy(filters.mailboxId) THEN {"inMailbox"} ELSE {})
             \cup (IF Truthy(filters.after) THEN {"after"} ELSE {})
             \cup (IF Truthy(filters.before) THEN {"before"} ELSE {})
  IN [k \in keys |->
        CASE k = "text" -> filters.query
          [] k = "from" -> filters.from
          [] k = "to" -> filters.to
          [] k = "subject" -> filters.subject
          [] k = "hasAttachment" -> filters.hasAttachment
          [] k = "hasKeyword" -> IF Val(filters.isUnread) THEN None ELSE Some("$seen")
          [] k = "inMailbox" -> filters.mailboxId
          [] k = "after" -> filters.after
          [] k = "before" -> filters.before]
\* the Email/query filter of advancedSearch (lines 518-535)
advancedSearchFilter(filters) ==
  LET set == (IF Truthy(filters.query) THEN {"text"} ELSE {})
             \cup (IF Truthy(filters.from) THEN {"from"} ELSE {})
             \cup (IF Truthy(filters.to) THEN {"to"} ELSE {})
             \cup (IF Truthy(filters.subject) THEN {"subject"} ELSE {})
             \cup (IF IsSome(filters.hasAttachment) THEN {"hasAttachment"} ELSE {})
             \cup (IF IsSome(filters.isUnread) THEN {"hasKeyword"} ELSE {})
             \cup (IF Truthy(filters.mailboxId) THEN {"inMailbox"} ELSE {})
             \cup (IF Truthy(filters.after) THEN {"after"} ELSE {})
             \cup (IF Truthy(filters.before) THEN {"before"} ELSE {})
      keys == IF filters.isUnread = Some(TRUE)
              THEN (set \cup {"notKeyword"}) \ {"hasKeyword"}
              ELSE set
  IN [k \in keys |->
        CASE k = "text" -> filters.query
          [] k = "from" -> filters.from
          [] k = "to" -> filters.to
          [] k = "subject" -> filters.subject
          [] k = "hasAttachment" -> filters.hasAttachment
          [] k = "hasKeyword" -> IF Val(filters.isUnread) THEN None ELSE Some("$seen")
          [] k = "inMailbox" -> filters.mailboxId
          [] k = "after" -> filters.after
          [] k = "before" -> filters.before
          [] k = "notKeyword" -> Some("$seen")]

advancedSearch(ctx, o, filters) ==
  LET limit == IF IsSome(filters.limit) /\ Val(filters.limit) # 0
               THEN Val(filters.limit) ELSE 50
  IN
  Bind(getSession(ctx, o), LAMBDA s :
  Bind(makeRequest(s.ctx, o,
         [using |-> USING_MAIL,
          methodCalls |-> <<
            <<"Email/query", [accountId |-> s.val.accountId,
                              filter |-> advancedSearchFilter(filters),
                              sort |-> SORT_RECEIVED_DESC,
                              limit |-> Min(limit, SEARCH_LIMIT_CEILING)], "query">>,
            <<"Email/get", [accountId |-> s.val.accountId,
                            ids_ref |-> IDS_OF_QUERY,
                            properties |-> EMAIL_SEARCH_PROPERTIES], "emails">> >>]), LAMBDA r :
  ReturnList(r, 1, "Email/get")))


\* what the try block of getThread's preliminary lookup leaves, r its request
threadIdOf(r, threadId) ==
  IF ~r.ok THEN [ctx |-> r.ctx, actualThreadId |-> threadId, caught |-> TRUE]
  ELSE ReadHead(r, "Email/get", LAMBDA rd, h :
         IF ~rd.defined \/ h.threw
         THEN [ctx |-> rd.ctx, actualThreadId |-> threadId, caught |-> TRUE]
         ELSE [ctx |-> rd.ctx,
               actualThreadId |-> IF IsSome(h.v) /\ Val(h.v).threadId # ""
                                  THEN Val(h.v).threadId ELSE threadId,
               caught |-> FALSE])

\* the thread id getThread settles on after its preliminary Email/get
\* (lines 562-585): any error of that lookup is swallowed
resolveThreadId(ctx, o, accountId, threadId) ==
  threadIdOf(makeRequest(ctx, o,
               [using |-> USING_MAIL,
                methodCalls |-> << <<"Email/get", [accountId |-> accountId,
                                                   ids |-> <<threadId>>,
                                                   properties |-> <<"threadId">>],
                                     "checkEmail">> >>]),
             threadId)

getThread(ctx, o, threadId) ==
  Bind(getSession(ctx, o), LAMBDA s :
  Let(resolveThreadId(s.ctx, o, s.val.accountId, threadId), LAMBDA pre :
  Bind(makeRequest(pre.ctx, o,
         [using |-> USING_MAIL,
          methodCalls |-> <<
            <<"Thread/get", [accountId |-> s.val.accountId,
                             ids |-> <<pre.actualThreadId>>], "getThread">>,
            <<"Email/get", [accountId |-> s.val.accountId,
                            ids_ref |-> [resultOf |-> "getThread", name |-> "Thread/get",
                                         path |-> "/list/*/emailIds"],
                            properties |-> EMAIL_SEARCH_PROPERTIES], "emails">> >>]), LAMBDA r :
  Let(ReadResult(r, 0, "Thread/get"), LAMBDA threadRd :
    IF ~threadRd.defined THEN TypeError(threadRd.ctx)
    ELSE IF NotFoundIncludes(threadRd.result, pre.actualThreadId)
    THEN Err(threadRd.ctx, Error(<<"Thread with ID '", pre.actualThreadId, "' not found">>))
    ELSE ReturnList([r EXCEPT !.ctx = threadRd.ctx], 1, "Email/get")))))

mailboxStats(mb) ==
  [id |-> mb.id, name |-> mb.name, role |-> mb.role,
   totalEmails |-> 0, unreadEmails |-> 0, totalThreads |-> 0, unreadThreads |-> 0]

getMailboxStats(ctx, o, mailboxId) ==
  Bind(getSession(ctx, o), LAMBDA s :
    IF Truthy(mailboxId)
    THEN
      Bind(makeRequest(s.ctx, o,
             [using |-> USING_MAIL,
              methodCalls |-> << <<"Mailbox/get",
                  [accountId |-> s.val.accountId,
                   ids |-> <<Val(mailboxId)>>,
                   properties |-> <<"id", "name", "role", "totalEmails", "unreadEmails",
                                    "totalThreads", "unreadThreads">>], "mailbox">> >>]),
           LAMBDA r :
      ReadHead(r, "Mailbox/get", LAMBDA rd, h :
        IF ~rd.defined \/ h.threw THEN TypeError(rd.ctx) ELSE Ok(rd.ctx, h.v)))
    ELSE
      Bind(getMailboxes(s.ctx, o), LAMBDA mb :
        IF ~IsSome(mb.val) THEN TypeError(mb.ctx)
        ELSE Ok(mb.ctx, Some(Map(Val(mb.val), mailboxStats)))))

getAccountSummary(ctx, o) ==
  Bind(getSession(ctx, o), LAMBDA s :
  Bind(getMailboxes(s.ctx, o), LAMBDA mb :
  Bind(getIdentities(mb.ctx, o), LAMBDA ids :
    IF ~IsSome(mb.val) \/ ~IsSome(ids.val) THEN TypeError(ids.ctx)
    ELSE Ok(ids.ctx, [accountId |-> s.val.accountId,
                      mailboxCount |-> Len(Val(mb.val)),
                      identityCount |-> Len(Val(ids.val)),
                      totalEmails |-> 0, unreadEmails |-> 0,
                      totalThreads |-> 0, unreadThreads |-> 0,
                      mailboxes |-> Map(Val(mb.val), LAMBDA m :
                          [id |-> m.id, name |-> m.name, role |-> m.role,
                           totalEmails |-> 0, unreadEmails |-> 0])]))))

\* bulkUpdates leaving out the first id
bulkUpdates_skipFirst(emailIds, patch) ==
  [id \in ToSet(IF emailIds = <<>> THEN <<>> ELSE Tail(emailIds)) |-> patch]

\* emailIds.forEach(id => { updates[id] = patch })
bulkUpdates(emailIds, patch) == [id \in ToSet(emailIds) |-> patch]

\* the common tail of the bulk operations
updateMany(ctx, o, request, failure) ==
  Bind(makeRequest(ctx, o, request), LAMBDA r :
  Let(ReadResult(r, 0, "Email/set"), LAMBDA rd :
    IF ~rd.defined THEN TypeError(rd.ctx)
    ELSE IF AnyNotUpdated(rd.result) THEN Err(rd.ctx, Error(failure))
    ELSE Ok(rd.ctx, None)))

bulkMarkRead(ctx, o, emailIds, readArg) ==
  LET read == Default(readArg, TRUE)
      keywords == IF read THEN KEYWORDS_SEEN ELSE EmptyObject
  IN
  Bind(getSession(ctx, o), LAMBDA s :
    updateMany(s.ctx, o,
      updateRequest(s.val.accountId, bulkUpdates(emailIds, [keywords |-> keywords]),
                    "bulkUpdate"),
      <<"Failed to update some emails.">>))

bulkMove(ctx, o, emailIds, targetMailboxId) ==
  Bind(getSession(ctx, o), LAMBDA s :
    updateMany(s.ctx, o,
      updateRequest(s.val.accountId,
                    bulkUpdates(emailIds, [mailboxIds |-> IdMap(targetMailboxId)]),
                    "bulkMove"),
      <<"Failed to move some emails.">>))

bulkDelete(ctx, o, emailIds) ==
  Bind(getSession(ctx, o), LAMBDA s :
  Bind(getMailboxes(s.ctx, o), LAMBDA mb :
    IF ~IsSome(mb.val) THEN TypeError(mb.ctx)
    ELSE
      Let(findMailbox(Val(mb.val), "trash", "trash"), LAMBDA trashMailbox :
        IF ~IsSome(trashMailbox) THEN Err(mb.ctx, Error(<<"Could not find Trash mailbox">>))
        ELSE updateMany(mb.ctx, o,
               updateRequest(s.val.accountId,
                 bulkUpdates(emailIds, [mailboxIds |-> IdMap(Val(trashMailbox).id)]),
                 "bulkDelete"),
               <<"Failed to delete some emails.">>))))


(***************************************************************************)
(* The tool dispatcher: the CallToolRequestSchema handler.  args holds     *)
(* every argument of the tool's schema as an optional.                     *)
(***************************************************************************)
InvalidParams(message) == McpError("InvalidParams", <<message>>)
\* { content: [{ type: 'text', text }] }
Content(ctx, text) == Ok(ctx, [content |-> text])
\* a backend call whose result is returned as JSON text
Json(r) == IF ~r.ok THEN r ELSE Content(r.ctx, <<"json", r.val>>)
\* a backend call followed by a fixed message
Then(r, text) == IF ~r.ok THEN r ELSE Content(r.ctx, text)

\* the token findEnvValue resolves, the singleton jmapClient it guards
initializeClient(ctx) ==
  IF ctx.jmapClient THEN Ok(ctx, None)
  ELSE IF ~Truthy(ctx.env.FASTMAIL_API_TOKEN)
  THEN Err(ctx, McpError("InvalidRequest",
                         <<"FASTMAIL_API_TOKEN environment variable is required">>))
  ELSE Ok([ctx EXCEPT !.jmapClient = TRUE], None)

tool_send_email(ctx, o, args) ==
  IF ~IsSome(args.to) \/ Len(Val(args.to)) = 0
  THEN Err(ctx, InvalidParams("to field is required and must be a non-empty array"))
  ELSE IF ~Truthy(args.subject) THEN Err(ctx, InvalidParams("subject is required"))
  ELSE IF ~Truthy(args.textBody) /\ ~Truthy(args.htmlBody)
  THEN Err(ctx, InvalidParams("Either textBody or htmlBody is required"))
  ELSE Bind(sendEmail(ctx, o, [to |-> Val(args.to), cc |-> args.cc, bcc |-> args.bcc,
                               from |-> args.from, mailboxId |-> args.mailboxId,
                               subject |-> Val(args.subject),
                               textBody |-> args.textBody, htmlBody |-> args.htmlBody]),
            LAMBDA r : Content(r.ctx, <<"Email sent successfully. Submission ID: ", r.val>>))

tool_search_emails(ctx, o, args) ==
  IF ~Truthy(args.query) THEN Err(ctx, InvalidParams("query is required"))
  ELSE
    Bind(getSession(ctx, o), LAMBDA s :
    Bind(makeRequest(s.ctx, o,
           [using |-> USING_MAIL,
            methodCalls |-> <<
              <<"Email/query", [accountId |-> s.val.accountId,
                                filter |-> [text |-> Val(args.query)],
                                sort |-> SORT_RECEIVED_DESC,
                                limit |-> Default(args.limit, 20)], "query">>,
              <<"Email/get", [accountId |-> s.val.accountId,
                              ids_ref |-> IDS_OF_QUERY,
                              properties |-> EMAIL_LIST_PROPERTIES], "emails">> >>]), LAMBDA r :
    Json(ReturnList(r, 1, "Email/get"))))

\* a catch that passed the failure's message on
downloadResult_passMessage(r) ==
  IF r.ok THEN Content(r.ctx, <<"Download URL: ", r.val>>)
  ELSE Err(r.ctx, McpError("InternalError",
         <<"Attachment download failed: ">> \o r.err.message))
\* the case's own try/catch: any failure becomes one fixed message
downloadResult(r) ==
  IF r.ok THEN Content(r.ctx, <<"Download URL: ", r.val>>)
  ELSE Err(r.ctx, McpError("InternalError",
         <<"Attachment download failed. Verify emailId and attachmentId and try again.">>))

tool_download_attachment(ctx, o, args) ==
  IF ~Truthy(args.emailId) \/ ~Truthy(args.attachmentId)
  THEN Err(ctx, InvalidParams("emailId and attachmentId are required"))
  ELSE Bind(initializeClient(ctx), LAMBDA c :
         downloadResult(downloadAttachment(c.ctx, o, Val(args.emailId),
                                           Val(args.attachmentId))))

\* the case's own try/catch: the failure's message is passed on
threadResult(r) ==
  IF r.ok THEN Json(r)
  ELSE Err(r.ctx, McpError("InternalError", <<"Thread access failed: ">> \o r.err.message))

tool_get_thread(ctx, o, args) ==
  IF ~Truthy(args.threadId) THEN Err(ctx, InvalidParams("threadId is required"))
  ELSE Bind(initializeClient(ctx), LAMBDA c :
         threadResult(getThread(c.ctx, o, Val(args.threadId))))

\* one line of the test report
testEntry(name, r) ==
  [name |-> name, status |-> IF r.ok THEN "SUCCESS" ELSE "FAILED", executed |-> r.ok,
   error |-> r.err.message]

\* the two writes of test_bulk_operations, each in its own try/catch
testOperations(ctx, o, emailIds) ==
  Let(bulkMarkRead(ctx, o, emailIds, Some(TRUE)), LAMBDA r1 :
  Let(bulkMarkRead(r1.ctx, o, emailIds, Some(FALSE)), LAMBDA r2 :
    Content(r2.ctx, <<"BULK OPERATIONS TEST (EXECUTED)",
                      <<testEntry("bulk_mark_read", r1),
                        testEntry("bulk_mark_read (undo)", r2)>> >>)))

\* the case executing the writes unless dryRun is given as true
tool_test_bulk_operations_defaultExecute(ctx, o, args) ==
  LET dryRun == Default(args.dryRun, FALSE)
      limit == Default(args.limit, 3)
      testLimit == Min(Max(limit, 1), 10)
  IN
  Bind(initializeClient(ctx), LAMBDA c :
  Bind(getRecentEmails(c.ctx, o, Some(testLimit), Some("inbox")), LAMBDA r :
    IF ~IsSome(r.val) THEN TypeError(r.ctx)
    ELSE IF Len(Val(r.val)) = 0
    THEN Content(r.ctx, <<"No emails found for bulk operation testing. ",
                          "Try sending yourself a test email first.">>)
    ELSE IF dryRun
    THEN Content(r.ctx, <<"BULK OPERATIONS TEST (DRY RUN)",
                          Map(Slice0(Val(r.val), testLimit), LAMBDA e : e.id),
                          "DRY RUN - Would execute but not actually performed">>)
    ELSE testOperations(r.ctx, o, Map(Slice0(Val(r.val), testLimit), LAMBDA e : e.id))))

tool_test_bulk_operations(ctx, o, args) ==
  LET dryRun == Default(args.dryRun, TRUE)
      limit == Default(args.limit, 3)
      testLimit == Min(Max(limit, 1), 10)
  IN
  Bind(initializeClient(ctx), LAMBDA c :
  Bind(getRecentEmails(c.ctx, o, Some(testLimit), Some("inbox")), LAMBDA r :
    IF ~IsSome(r.val) THEN TypeError(r.ctx)
    ELSE IF Len(Val(r.val)) = 0
    THEN Content(r.ctx, <<"No emails found for bulk operation testing. ",
                          "Try sending yourself a test email first.">>)
    ELSE IF dryRun
    THEN Content(r.ctx, <<"BULK OPERATIONS TEST (DRY RUN)",
                          Map(Slice0(Val(r.val), testLimit), LAMBDA e : e.id),
                          "DRY RUN - Would execute but not actually performed">>)
    ELSE testOperations(r.ctx, o, Map(Slice0(Val(r.val), testLimit), LAMBDA e : e.id))))


(***************************************************************************)
(* The ICS parser (caldav-client.ts 110-187).  A text is the sequence of   *)
(* its characters, each a one-character string, so that the regular        *)
(* expressions and the index arithmetic of the code act on it as they do   *)
(* on a JavaScript string.  Positions are one-based; a search that finds   *)
(* nothing gives 0 where the code has -1.                                  *)
(***************************************************************************)
LF == "\n"
CR == "\r"
\* the characters after which ^ and before which $ match under the m flag,
\* and which . does not match
LineTerminators == {LF, CR}
\* \s over the characters in use
WhiteSpace == {" ", "\t", LF, CR}
\* \d
Digit == {"0", "1", "2", "3", "4", "5", "6", "7", "8", "9"}
UPPER ==
  <<"A", "B", "C", "D", "E", "F", "G", "H", "I", "J", "K", "L", "M",
    "N", "O", "P", "Q", "R", "S", "T", "U", "V", "W", "X", "Y", "Z">>
LOWER ==
  <<"a", "b", "c", "d", "e", "f", "g", "h", "i", "j", "k", "l", "m",
    "n", "o", "p", "q", "r", "s", "t", "u", "v", "w", "x", "y", "z">>
\* the case folding of the i flag, one character at a time
lowerChar(c) ==
  IF \E i \in DOMAIN UPPER : UPPER[i] = c
  THEN LOWER[CHOOSE i \in DOMAIN UPPER : UPPER[i] = c]
  ELSE c
\* the JavaScript string a character sequence stands for
RECURSIVE Str(_)
Str(chars) == IF chars = <<>> THEN "" ELSE Head(chars) \o Str(Tail(chars))
\* a || b on strings: b when a is null or empty
orElse(a, b) == IF IsSome(a) /\ Val(a) # <<>> THEN Val(a) ELSE b
\* the least element of a non-empty set of positions
First(S) == CHOOSE i \in S : \A j \in S : i <= j

\* the literal pattern occurs in text at position i
matchesAt(text, i, pattern) ==
  /\ i + Len(pattern) - 1 <= Len(text)
  /\ \A k \in 1..Len(pattern) : text[i + k - 1] = pattern[k]
\* the same with the i flag
matchesAtI(text, i, pattern) ==
  /\ i + Len(pattern) - 1 <= Len(text)
  /\ \A k \in 1..Len(pattern) : lowerChar(text[i + k - 1]) = lowerChar(pattern[k])
\* String.prototype.indexOf from a position
FirstOr0(S) == IF S = {} THEN 0 ELSE First(S)
indexOf(text, pattern, from) ==
  FirstOr0({i \in from..Len(text) : matchesAt(text, i, pattern)})
\* the longest run of characters outside stop that starts at from: what a
\* greedy negated class, or . up to the end of the line, captures
spanFrom(text, from, stop) ==
  SubSeq(text, from,
         First({j \in from..(Len(text) + 1) : j = Len(text) + 1 \/ text[j] \in stop}) - 1)
\* the positions at which ^ matches under the m flag
lineStarts(text) ==
  {1} \cup {i + 1 : i \in {j \in DOMAIN text : text[j] \in LineTerminators}}

\* the literals of the parser
BEGIN_VEVENT == <<"B", "E", "G", "I", "N", ":", "V", "E", "V", "E", "N", "T">>
END_VEVENT == <<"E", "N", "D", ":", "V", "E", "V", "E", "N", "T">>
UID == <<"U", "I", "D">>
SUMMARY == <<"S", "U", "M", "M", "A", "R", "Y">>
DESCRIPTION == <<"D", "E", "S", "C", "R", "I", "P", "T", "I", "O", "N">>
LOCATION == <<"L", "O", "C", "A", "T", "I", "O", "N">>
DTSTART == <<"D", "T", "S", "T", "A", "R", "T">>
DTEND == <<"D", "T", "E", "N", "D">>
CREATED == <<"C", "R", "E", "A", "T", "E", "D">>
LAST_MODIFIED == <<"L", "A", "S", "T", "-", "M", "O", "D", "I", "F", "I", "E", "D">>
ATTENDEE == <<"A", "T", "T", "E", "N", "D", "E", "E">>
MAILTO == <<"m", "a", "i", "l", "t", "o", ":">>
CN_EQ == <<"C", "N", "=">>
UNTITLED == <<"U", "n", "t", "i", "t", "l", "e", "d">>
\* value.replace(/\r?\n[ \t]/g, '')
RECURSIVE unfoldLines(_)
unfoldLines(value) ==
  IF value = <<>> THEN <<>>
  ELSE IF Len(value) >= 3 /\ value[1] = CR /\ value[2] = LF /\ value[3] \in {" ", "\t"}
  THEN unfoldLines(SubSeq(value, 4, Len(value)))
  ELSE IF Len(value) >= 2 /\ value[1] = LF /\ value[2] \in {" ", "\t"}
  THEN unfoldLines(SubSeq(value, 3, Len(value)))
  ELSE <<Head(value)>> \o unfoldLines(Tail(value))
\* value.replace(/\\X/g, to) for one escaped character X
RECURSIVE unescape(_, _, _)
unescape(value, escaped, to) ==
  IF value = <<>> THEN <<>>
  ELSE IF Len(value) >= 2 /\ value[1] = "\\" /\ value[2] = escaped
  THEN <<to>> \o unescape(SubSeq(value, 3, Len(value)), escaped, to)
  ELSE <<Head(value)>> \o unescape(Tail(value), escaped, to)
unfoldICS(value) == unescape(unescape(unfoldLines(value), "n", LF), ",", ",")

\* prop.startsWith('DT') || prop === 'CREATED' || prop === 'LAST-MODIFIED'
isDateProp(prop) ==
  \/ matchesAt(prop, 1, <<"D", "T">>)
  \/ prop = CREATED
  \/ prop = LAST_MODIFIED
\* vevent.match(new RegExp(`^${prop}[;:](.*)$`, 'm'))[1]: the rest of the
\* first line that begins with prop and ';' or ':', null without such a line
propMatch(vevent, prop) ==
  Let({i \in lineStarts(vevent) :
         /\ matchesAt(vevent, i, prop)
         /\ i + Len(prop) <= Len(vevent)
         /\ vevent[i + Len(prop)] \in {";", ":"}}, LAMBDA hits :
    IF hits = {} THEN None
    ELSE Some(spanFrom(vevent, First(hits) + Len(prop) + 1, LineTerminators)))
extractProp(vevent, prop) ==
  Let(propMatch(vevent, prop), LAMBDA match :
    IF ~IsSome(match) THEN None
    ELSE IF isDateProp(prop)
    THEN Let(Val(match), LAMBDA raw :
         Let(indexOf(raw, <<":">>, 1), LAMBDA colonIdx :
           Some(IF colonIdx > 0 THEN SubSeq(raw, colonIdx + 1, Len(raw)) ELSE raw)))
    ELSE Some(unfoldICS(Val(match))))

\* /^(\d{4})(\d{2})(\d{2})T(\d{2})(\d{2})(\d{2})(Z?)$/
isDateTime(icsDate) ==
  /\ Len(icsDate) \in {15, 16}
  /\ \A i \in (1..8) \cup (10..15) : icsDate[i] \in Digit
  /\ icsDate[9] = "T"
  /\ Len(icsDate) = 16 => icsDate[16] = "Z"
\* a variant whose date-time template ends in a literal Z
formatICSDate_alwaysZ(icsDate) ==
  IF icsDate = <<>> THEN <<>>
  ELSE IF "-" \in ToSet(icsDate) THEN icsDate
  ELSE IF Len(icsDate) = 8
  THEN SubSeq(icsDate, 1, 4) \o <<"-">> \o SubSeq(icsDate, 5, 6) \o <<"-">>
         \o SubSeq(icsDate, 7, 8)
  ELSE IF isDateTime(icsDate)
  THEN SubSeq(icsDate, 1, 4) \o <<"-">> \o SubSeq(icsDate, 5, 6) \o <<"-">>
         \o SubSeq(icsDate, 7, 8) \o <<"T">> \o SubSeq(icsDate, 10, 11) \o <<":">>
         \o SubSeq(icsDate, 12, 13) \o <<":">> \o SubSeq(icsDate, 14, 15) \o <<"Z">>
  ELSE icsDate
formatICSDate(icsDate) ==
  IF icsDate = <<>> THEN <<>>
  ELSE IF "-" \in ToSet(icsDate) THEN icsDate
  ELSE IF Len(icsDate) = 8
  THEN SubSeq(icsDate, 1, 4) \o <<"-">> \o SubSeq(icsDate, 5, 6) \o <<"-">>
         \o SubSeq(icsDate, 7, 8)
  ELSE IF isDateTime(icsDate)
  THEN SubSeq(icsDate, 1, 4) \o <<"-">> \o SubSeq(icsDate, 5, 6) \o <<"-">>
         \o SubSeq(icsDate, 7, 8) \o <<"T">> \o SubSeq(icsDate, 10, 11) \o <<":">>
         \o SubSeq(icsDate, 12, 13) \o <<":">> \o SubSeq(icsDate, 14, 15)
         \o SubSeq(icsDate, 16, Len(icsDate))
  ELSE icsDate

\* line.match(/mailto:([^\s;]+)/)[1]: the scheme in lower case only
emailMatch_caseSensitive(line) ==
  Let({i \in DOMAIN line :
         /\ matchesAt(line, i, MAILTO)
         /\ i + Len(MAILTO) <= Len(line)
         /\ line[i + Len(MAILTO)] \notin WhiteSpace \cup {";"}}, LAMBDA hits :
    IF hits = {} THEN None
    ELSE Some(spanFrom(line, First(hits) + Len(MAILTO), WhiteSpace \cup {";"})))
\* line.match(/mailto:([^\s;]+)/i)[1], null without a match
emailMatch(line) ==
  Let({i \in DOMAIN line :
         /\ matchesAtI(line, i, MAILTO)
         /\ i + Len(MAILTO) <= Len(line)
         /\ line[i + Len(MAILTO)] \notin WhiteSpace \cup {";"}}, LAMBDA hits :
    IF hits = {} THEN None
    ELSE Some(spanFrom(line, First(hits) + Len(MAILTO), WhiteSpace \cup {";"})))
\* line.match(/CN=([^;:]+)/i)[1], null without a match
nameMatch(line) ==
  Let({i \in DOMAIN line :
         /\ matchesAtI(line, i, CN_EQ)
         /\ i + Len(CN_EQ) <= Len(line)
         /\ line[i + Len(CN_EQ)] \notin {";", ":"}}, LAMBDA hits :
    IF hits = {} THEN None
    ELSE Some(spanFrom(line, First(hits) + Len(CN_EQ), {";", ":"})))
\* the entry of one ATTENDEE line, none without an address (lines 175-183)
attendeeOf(line) ==
  Let(emailMatch(line), LAMBDA email :
  Let(nameMatch(line), LAMBDA name :
    IF ~IsSome(email) THEN <<>>
    ELSE IF IsSome(name) THEN <<[email |-> Val(email), name |-> Val(name)]>>
    ELSE <<[email |-> Val(email)]>>))
\* the attendees of the lines that start at the given positions, in order
RECURSIVE attendeesFrom(_, _)
attendeesFrom(vevent, starts) ==
  IF starts = {} THEN <<>>
  ELSE attendeeOf(spanFrom(vevent, First(starts) + Len(ATTENDEE) + 1, LineTerminators))
         \o attendeesFrom(vevent, starts \ {First(starts)})
\* every match of /^ATTENDEE[;:](.*?)$/gm
extractAttendees(vevent) ==
  attendeesFrom(vevent, {i \in lineStarts(vevent) :
                           /\ matchesAt(vevent, i, ATTENDEE)
                           /\ i + Len(ATTENDEE) <= Len(vevent)
                           /\ vevent[i + Len(ATTENDEE)] \in {";", ":"}})

\* the greatest element of a non-empty set of positions
Last(S) == CHOOSE i \in S : \A j \in S : i >= j
\* the match of /BEGIN:VEVENT[\s\S]*END:VEVENT/, greedy: up to the last END:VEVENT
veventMatch_greedy(icsData) ==
  Let(indexOf(icsData, BEGIN_VEVENT, 1), LAMBDA b :
  Let({i \in (b + Len(BEGIN_VEVENT))..Len(icsData) : matchesAt(icsData, i, END_VEVENT)},
      LAMBDA ends :
    IF b = 0 \/ ends = {} THEN None
    ELSE Some(SubSeq(icsData, b, Last(ends) + Len(END_VEVENT) - 1))))
\* icsData.match(/BEGIN:VEVENT[\s\S]*?END:VEVENT/)[0]: from the first
\* BEGIN:VEVENT to the nearest END:VEVENT after it, null without both
veventMatch(icsData) ==
  Let(indexOf(icsData, BEGIN_VEVENT, 1), LAMBDA b :
  Let(IF b = 0 THEN 0 ELSE indexOf(icsData, END_VEVENT, b + Len(BEGIN_VEVENT)), LAMBDA e :
    IF b = 0 \/ e = 0 THEN None
    ELSE Some(SubSeq(icsData, b, e + Len(END_VEVENT) - 1))))
\* the event of a VEVENT block (lines 115-123)
eventOf(vevent) ==
  Let([prop \in {UID, SUMMARY, DESCRIPTION, DTSTART, DTEND, LOCATION} |->
         extractProp(vevent, prop)], LAMBDA found :
  Let([prop \in {DTSTART, DTEND} |-> formatICSDate(orElse(found[prop], <<>>))],
      LAMBDA date :
    [id |-> orElse(found[UID], <<>>),
     title |-> orElse(found[SUMMARY], UNTITLED),
     description |-> orElse(found[DESCRIPTION], <<>>),
     start |-> date[DTSTART],
     end |-> date[DTEND],
     location |-> orElse(found[LOCATION], <<>>),
     participants |-> extractAttendees(vevent)]))
parseICS(icsData) ==
  Let(veventMatch(icsData), LAMBDA vevent :
    IF ~IsSome(vevent) THEN None ELSE Some(eventOf(Val(vevent))))

(***************************************************************************)
(* The CalDAV calendar client.  The DAV library (tsdav) is the             *)
(* environment: login and the fetches are network requests that succeed    *)
(* or throw as the oracle says; a fetch on a handle that never logged in   *)
(* throws without a request (the library has no account to fetch for).     *)
(***************************************************************************)
DavEvent(op, ok) == [kind |-> "CALDAV", op |-> op, ok |-> ok]
NumDav(net) == Cardinality({i \in DOMAIN net : net[i].kind = "CALDAV"})
\* whether the next DAV request of this invocation succeeds
DavOk(ctx, o) == (NumDav(ctx.net) + 1) \notin o.davFail

getClient(ctx, o) ==
  IF ctx.dav.client THEN Ok(ctx, None)
  ELSE LET ok == DavOk(ctx, o)
           c1 == [ctx EXCEPT !.dav = [client |-> TRUE, loggedIn |-> ok],
                             !.net = Append(@, DavEvent("login", ok))]
       IN IF ok THEN Ok(c1, None) ELSE Err(c1, Error(<<"Invalid credentials">>))

fetchCalendars(ctx, o) ==
  IF ~ctx.dav.loggedIn THEN Err(ctx, Error(<<"no account for fetchCalendars">>))
  ELSE LET ok == DavOk(ctx, o)
           c1 == [ctx EXCEPT !.net = Append(@, DavEvent("fetchCalendars", ok))]
       IN IF ok THEN Ok(c1, o.calendars) ELSE Err(c1, Error(<<"fetchCalendars failed">>))

fetchCalendarObjects(ctx, o, fetchOptions) ==
  LET ok == DavOk(ctx, o)
      c1 == [ctx EXCEPT !.net = Append(@, [kind |-> "CALDAV", op |-> "fetchCalendarObjects",
                                           ok |-> ok, options |-> fetchOptions])]
  IN IF ok THEN Ok(c1, o.objects[fetchOptions.calendar.url])
     ELSE Err(c1, Error(<<"fetchCalendarObjects failed">>))

caldavGetCalendars(ctx, o) ==
  Bind(getClient(ctx, o), LAMBDA client :
  Bind(fetchCalendars(client.ctx, o), LAMBDA calendars :
    Ok(calendars.ctx, Map(calendars.val, LAMBDA cal :
         [id |-> cal.url,
          name |-> IF Truthy(cal.displayName) THEN Val(cal.displayName) ELSE "Unnamed",
          url |-> cal.url]))))

\* new Date(start).getTime() over the start values in use, in hours from
\* 2026-01-29T00:00Z, and NaN (None) for a text that is no date, the empty
\* one included.  A start without zone is local time: no store holds two
\* starts whose order depends on the zone of the process.
getTime(start) ==
  Let(Str(start), LAMBDA s :
    CASE s = "2026-01-30" -> Some(24)
      [] s = "2026-01-30T09:00:00" -> Some(33)
      [] s = "2026-01-31" -> Some(48)
      [] s = "2026-01-31T10:00:00Z" -> Some(58)
      [] s = "2026-02-01" -> Some(72)
      [] s = "2026-02-01T10:00:00Z" -> Some(82)
      [] OTHER -> None)

\* the comparator of line 86 as sort reads it: a.getTime() - b.getTime(),
\* a NaN difference counting as 0
compareStart(a, b) ==
  Let(getTime(a.start), LAMBDA ta :
  Let(getTime(b.start), LAMBDA tb :
    IF ~IsSome(ta) \/ ~IsSome(tb) THEN 0 ELSE Val(ta) - Val(tb)))

\* Array.prototype.sort as the runtime (V8) sorts an array of fewer than 64
\* elements: the leading run is taken as it stands, reversed when strictly
\* descending, and every later element is put in by binary insertion.  With a
\* comparator that is a consistent order this is the stable sort.
\* the length of the leading run of two or more elements
runLength(xs) ==
  LET descending == compareStart(xs[2], xs[1]) < 0
      breaks == {i \in 3..Len(xs) :
                   IF descending THEN compareStart(xs[i], xs[i - 1]) >= 0
                   ELSE compareStart(xs[i], xs[i - 1]) < 0}
  IN IF breaks = {} THEN Len(xs) ELSE First(breaks) - 1
Reverse(xs) == [i \in 1..Len(xs) |-> xs[Len(xs) + 1 - i]]
makeAscendingRun(xs) ==
  IF compareStart(xs[2], xs[1]) < 0
  THEN Reverse(SubSeq(xs, 1, runLength(xs))) \o SubSeq(xs, runLength(xs) + 1, Len(xs))
  ELSE xs
\* where the pivot goes among xs[left..right-1]
RECURSIVE insertionPoint(_, _, _, _)
insertionPoint(xs, pivot, left, right) ==
  IF left >= right THEN left
  ELSE Let(left + ((right - left) \div 2), LAMBDA mid :
         IF compareStart(pivot, xs[mid]) < 0 THEN insertionPoint(xs, pivot, left, mid)
         ELSE insertionPoint(xs, pivot, mid + 1, right))
RECURSIVE binaryInsertionSort(_, _)
binaryInsertionSort(xs, start) ==
  IF start > Len(xs) THEN xs
  ELSE Let(insertionPoint(xs, xs[start], 1, start), LAMBDA left :
         binaryInsertionSort(SubSeq(xs, 1, left - 1) \o <<xs[start]>>
                               \o SubSeq(xs, left, start - 1)
                               \o SubSeq(xs, start + 1, Len(xs)), start + 1))
\* allEvents.sort((a, b) => new Date(a.start).getTime() - new Date(b.start).getTime())
sortByStart(events) ==
  IF Len(events) < 2 THEN events
  ELSE binaryInsertionSort(makeAscendingRun(events), runLength(events) + 1)

\* the events of the target calendars in fetch order (lines 69-84)
RECURSIVE collectEvents(_, _, _, _, _)
collectEvents(ctx, o, target, timeRange, allEvents) ==
  IF target = <<>> THEN Ok(ctx, allEvents)
  ELSE Bind(fetchCalendarObjects(ctx, o, [calendar |-> Head(target),
                                          timeRange |-> timeRange]), LAMBDA objects :
         collectEvents(objects.ctx, o, Tail(target), timeRange,
           allEvents \o Map(SelectSeq(Map(objects.val, LAMBDA obj : parseICS(obj.data)),
                                      IsSome), Val)))

\* startDate.includes('T') over the dates in use
hasTime(date) == date \in {"2026-01-30T00:00:00", "2026-02-01T23:59:59"}

\* { start, end } of the fetch, undefined unless both dates are given
timeRangeOf(startDate, endDate) ==
  IF Truthy(startDate) /\ Truthy(endDate)
  THEN Some([start |-> IF hasTime(Val(startDate)) THEN <<Val(startDate)>>
                       ELSE <<Val(startDate), "T00:00:00">>,
             end |-> IF hasTime(Val(endDate)) THEN <<Val(endDate)>>
                     ELSE <<Val(endDate), "T23:59:59">>])
  ELSE None

caldavGetCalendarEvents(ctx, o, calendarId, limitArg, startDate, endDate) ==
  Bind(getClient(ctx, o), LAMBDA client :
  Bind(fetchCalendars(client.ctx, o), LAMBDA calendars :
  Let(IF Truthy(calendarId)
      THEN SelectSeq(calendars.val, LAMBDA c :
             c.url = Val(calendarId) \/ c.displayName = calendarId)
      ELSE calendars.val, LAMBDA target :
    IF Len(target) = 0
    THEN Err(calendars.ctx, Error(<<"Calendar not found: ", Default(calendarId, "undefined")>>))
    ELSE Bind(collectEvents(calendars.ctx, o, target, timeRangeOf(startDate, endDate), <<>>),
              LAMBDA all :
           Ok(all.ctx, Slice0(sortByStart(all.val), Default(limitArg, 50)))))))

\* the first object of the calendars whose event id or url is eventId
RECURSIVE findEvent(_, _, _, _)
findEvent(ctx, o, calendars, eventId) ==
  IF calendars = <<>> THEN Err(ctx, Error(<<"Calendar event not found: ", eventId>>))
  ELSE Bind(fetchCalendarObjects(ctx, o, [calendar |-> Head(calendars),
                                          timeRange |-> None]), LAMBDA objects :
       Let(Find(Map(objects.val, LAMBDA obj : [url |-> obj.url,
                                               parsed |-> parseICS(obj.data)]),
                LAMBDA obj :
                  /\ IsSome(obj.parsed)
                  /\ (Str(Val(obj.parsed).id) = eventId \/ obj.url = eventId)),
           LAMBDA hit :
         IF IsSome(hit) THEN Ok(objects.ctx, Val(Val(hit).parsed))
         ELSE findEvent(objects.ctx, o, Tail(calendars), eventId)))

caldavGetCalendarEventById(ctx, o, eventId) ==
  Bind(getClient(ctx, o), LAMBDA client :
  Bind(fetchCalendars(client.ctx, o), LAMBDA calendars :
    findEvent(calendars.ctx, o, calendars.val, eventId)))

\* an initializer that built a CalDAV client whether or not a token is set
initializeCalDAVClient_ignoreToken(ctx) ==
  Ok([ctx EXCEPT !.caldavClient = TRUE], TRUE)
\* resolveEnvValue('FASTMAIL_CALDAV_API_TOKEN', ...): null without a token
initializeCalDAVClient(ctx) ==
  IF ctx.caldavClient THEN Ok(ctx, TRUE)
  ELSE IF ~Truthy(ctx.env.FASTMAIL_CALDAV_API_TOKEN) THEN Ok(ctx, FALSE)
  ELSE Ok([ctx EXCEPT !.caldavClient = TRUE], TRUE)

(***************************************************************************)
(* The contacts/calendar JMAP-style client (contacts-calendar.ts) is not   *)
(* among the sources: each of its operations is one network round trip     *)
(* that resolves or throws.                                                *)
(***************************************************************************)
initializeContactsCalendarClient(ctx) ==
  IF ~Truthy(ctx.env.FASTMAIL_API_TOKEN)
  THEN Err(ctx, McpError("InvalidRequest",
                         <<"FASTMAIL_API_TOKEN environment variable is required">>))
  ELSE Ok(ctx, None)

contactsCalendarCall(ctx, o, operation) ==
  Bind(initializeContactsCalendarClient(ctx), LAMBDA c :
  Let([c.ctx EXCEPT !.net = Append(@, [kind |-> "CONTACTS", op |-> operation,
                                       ok |-> o.contactsOk])], LAMBDA c1 :
    IF o.contactsOk THEN Ok(c1, <<operation>>)
    ELSE Err(c1, Error(<<operation, " failed">>))))


\* list_calendars, list_calendar_events, get_calendar_event: CalDAV when
\* initializeCalDAVClient returns a client, else the contacts/calendar client
calendarTool(ctx, o, name, args) ==
  Let(initializeCalDAVClient(ctx), LAMBDA caldav :
     IF caldav.val
     THEN CASE name = "list_calendars" -> Json(caldavGetCalendars(caldav.ctx, o))
            [] name = "list_calendar_events" ->
                 Json(caldavGetCalendarEvents(caldav.ctx, o, args.calendarId, args.limit,
                                              args.startDate, args.endDate))
            [] name = "get_calendar_event" ->
                 Json(caldavGetCalendarEventById(caldav.ctx, o, Val(args.eventId)))
     ELSE CASE name = "list_calendars" -> Json(contactsCalendarCall(ctx, o, "getCalendars"))
            [] name = "list_calendar_events" ->
                 Json(contactsCalendarCall(ctx, o, "getCalendarEvents"))
            [] name = "get_calendar_event" ->
                 Json(contactsCalendarCall(ctx, o, "getCalendarEventById")))

\* the switch over the tool name (lines 695-1318)
toolCase(ctx, o, name, args) ==
  CASE name = "list_mailboxes" -> Json(getMailboxes(ctx, o))
    [] name = "list_emails" -> Json(getEmails(ctx, o, args.mailboxId, args.limit))
    [] name = "get_email" ->
         IF ~Truthy(args.emailId) THEN Err(ctx, InvalidParams("emailId is required"))
         ELSE Json(getEmailById(ctx, o, Val(args.emailId)))
    [] name = "send_email" -> tool_send_email(ctx, o, args)
    [] name = "search_emails" -> tool_search_emails(ctx, o, args)
    [] name = "list_contacts" -> Json(contactsCalendarCall(ctx, o, "getContacts"))
    [] name = "get_contact" ->
         IF ~Truthy(args.contactId) THEN Err(ctx, InvalidParams("contactId is required"))
         ELSE Json(contactsCalendarCall(ctx, o, "getContactById"))
    [] name = "search_contacts" ->
         IF ~Truthy(args.query) THEN Err(ctx, InvalidParams("query is required"))
         ELSE Json(contactsCalendarCall(ctx, o, "searchContacts"))
    [] name \in {"list_calendars", "list_calendar_events", "get_calendar_event"} ->
         IF name = "get_calendar_event" /\ ~Truthy(args.eventId)
         THEN Err(ctx, InvalidParams("eventId is required"))
         ELSE calendarTool(ctx, o, name, args)
    [] name = "create_calendar_event" ->
         IF ~Truthy(args.calendarId) \/ ~Truthy(args.title)
            \/ ~Truthy(args.start) \/ ~Truthy(args.end)
         THEN Err(ctx, InvalidParams("calendarId, title, start, and end are required"))
         ELSE Then(contactsCalendarCall(ctx, o, "createCalendarEvent"),
                   <<"Calendar event created successfully. Event ID: ">>)
    [] name = "list_identities" -> Json(getIdentities(ctx, o))
    [] name = "get_recent_emails" ->
         Json(getRecentEmails(ctx, o, args.limit, args.mailboxName))
    [] name = "mark_email_read" ->
         IF ~Truthy(args.emailId) THEN Err(ctx, InvalidParams("emailId is required"))
         ELSE Then(markEmailRead(ctx, o, Val(args.emailId), args.read),
                   <<"Email ", IF Default(args.read, TRUE) THEN "marked as read"
                               ELSE "marked as unread", " successfully">>)
    [] name = "delete_email" ->
         IF ~Truthy(args.emailId) THEN Err(ctx, InvalidParams("emailId is required"))
         ELSE Then(deleteEmail(ctx, o, Val(args.emailId)),
                   <<"Email deleted successfully (moved to trash)">>)
    [] name = "move_email" ->
         IF ~Truthy(args.emailId) \/ ~Truthy(args.targetMailboxId)
         THEN Err(ctx, InvalidParams("emailId and targetMailboxId are required"))
         ELSE Then(moveEmail(ctx, o, Val(args.emailId), Val(args.targetMailboxId)),
                   <<"Email moved successfully">>)
    [] name = "get_email_attachments" ->
         IF ~Truthy(args.emailId) THEN Err(ctx, InvalidParams("emailId is required"))
         ELSE Json(getEmailAttachments(ctx, o, Val(args.emailId)))
    [] name = "download_attachment" -> tool_download_attachment(ctx, o, args)
    [] name = "advanced_search" -> Json(advancedSearch(ctx, o, args))
    [] name = "get_thread" -> tool_get_thread(ctx, o, args)
    [] name = "get_mailbox_stats" -> Json(getMailboxStats(ctx, o, args.mailboxId))
    [] name = "get_account_summary" -> Json(getAccountSummary(ctx, o))
    [] name = "bulk_mark_read" ->
         IF ~IsSome(args.emailIds) \/ Len(Val(args.emailIds)) = 0
         THEN Err(ctx, InvalidParams("emailIds array is required and must not be empty"))
         ELSE Then(bulkMarkRead(ctx, o, Val(args.emailIds), args.read),
                   <<Len(Val(args.emailIds)), " emails ",
                     IF Default(args.read, TRUE) THEN "marked as read"
                     ELSE "marked as unread", " successfully">>)
    [] name = "bulk_move" ->
         IF ~IsSome(args.emailIds) \/ Len(Val(args.emailIds)) = 0
         THEN Err(ctx, InvalidParams("emailIds array is required and must not be empty"))
         ELSE IF ~Truthy(args.targetMailboxId)
         THEN Err(ctx, InvalidParams("targetMailboxId is required"))
         ELSE Then(bulkMove(ctx, o, Val(args.emailIds), Val(args.targetMailboxId)),
                   <<Len(Val(args.emailIds)), " emails moved successfully">>)
    [] name = "bulk_delete" ->
         IF ~IsSome(args.emailIds) \/ Len(Val(args.emailIds)) = 0
         THEN Err(ctx, InvalidParams("emailIds array is required and must not be empty"))
         ELSE Then(bulkDelete(ctx, o, Val(args.emailIds)),
                   <<Len(Val(args.emailIds)), " emails deleted successfully (moved to trash)">>)
    [] name = "check_function_availability" ->
         Bind(getSession(ctx, o), LAMBDA s :
           Json([s EXCEPT !.val =
                  [contacts |-> "urn:ietf:params:jmap:contacts" \in s.val.capabilities,
                   calendar |-> "urn:ietf:params:jmap:calendars" \in s.val.capabilities,
                   capabilities |-> s.val.capabilities]]))
    [] name = "test_bulk_operations" -> tool_test_bulk_operations(ctx, o, args)
    [] OTHER -> Err(ctx, McpError("MethodNotFound", <<"Unknown tool: ", name>>))

\* Rethrow wrapping every error, a structured one included
Rethrow_wrapAll(r) ==
  IF r.ok THEN r
  ELSE Err(r.ctx, McpError("InternalError", <<"Tool execution failed: ">> \o r.err.message))
\* the handler's try/catch: an McpError is rethrown, anything else wrapped
Rethrow(r) ==
  IF r.ok \/ r.err.mcp THEN r
  ELSE Err(r.ctx, McpError("InternalError", <<"Tool execution failed: ">> \o r.err.message))
CallTool(ctx, o, name, args) ==
  Bind(initializeClient(ctx), LAMBDA c : Rethrow(toolCase(c.ctx, o, name, args)))


(***************************************************************************)
(* State.                                                                  *)
(***************************************************************************)
VARIABLES
  env,          \* process.env: the variables the code reads
  jmapClient,   \* the dispatcher's JmapClient singleton exists
  session,      \* JmapClient.session: null (None) or the memoised session
  sessionGets,  \* session-discovery GETs that returned 2xx so far
  caldavClient, \* the dispatcher's CalDAVCalendarClient singleton exists
  dav,          \* CalDAVCalendarClient.client: the handle and whether it logged in
  last          \* the latest invocation: its arguments, requests and outcome

vars == <<env, jmapClient, session, sessionGets, caldavClient, dav, last>>

\* the context an invocation starts from
Ctx == [env |-> env, jmapClient |-> jmapClient, session |-> session, gets |-> sessionGets,
        caldavClient |-> caldavClient, dav |-> dav, net |-> <<>>, reads |-> <<>>,
        thrown |-> <<>>]

(***************************************************************************)
(* The environment's choices.                                              *)
(***************************************************************************)
CAPABILITIES == {"urn:ietf:params:jmap:core", "urn:ietf:params:jmap:mail",
                 "urn:ietf:params:jmap:submission"}
SessionDoc(primaryMail, accounts, downloadUrl) ==
  [apiUrl |-> "https://api.fastmail.com/jmap/api/",
   primaryMail |-> primaryMail, accounts |-> accounts,
   capabilities |-> CAPABILITIES,
   downloadUrl |-> downloadUrl, uploadUrl |-> Some("uploadUrl")]
SessionDocs ==
  {SessionDoc(p, a, d) : p \in {None, Some("u1")},
                         a \in {<<"u1">>, <<"u2", "u1">>},
                         d \in {Some("downloadUrl")}}

Calendar(url, displayName) == [url |-> url, displayName |-> displayName]
CAL_work == Calendar("/cal/work/", Some("Work"))
CAL_home == Calendar("/cal/home/", None)
\* the calendar objects of the store, as ICS text with CRLF line ends:
\* an event with a title and a UTC start
ICS_work1 ==
  <<"B", "E", "G", "I", "N", ":", "V", "C", "A", "L", "E", "N", "D", "A",
    "R", "\r", "\n", "B", "E", "G", "I", "N", ":", "V", "E", "V", "E", "N",
    "T", "\r", "\n", "U", "I", "D", ":", "e", "v", "2", "\r", "\n", "S", "U",
    "M", "M", "A", "R", "Y", ":", "S", "t", "a", "n", "d", "u", "p", "\r",
    "\n", "D", "T", "S", "T", "A", "R", "T", ":", "2", "0", "2", "6", "0",
    "2", "0", "1", "T", "1", "0", "0", "0", "0", "0", "Z", "\r", "\n", "E",
    "N", "D", ":", "V", "E", "V", "E", "N", "T", "\r", "\n", "E", "N", "D",
    ":", "V", "C", "A", "L", "E", "N", "D", "A", "R", "\r", "\n">>
\* a to-do: no VEVENT block
ICS_work2 ==
  <<"B", "E", "G", "I", "N", ":", "V", "C", "A", "L", "E", "N", "D", "A",
    "R", "\r", "\n", "B", "E", "G", "I", "N", ":", "V", "T", "O", "D", "O",
    "\r", "\n", "U", "I", "D", ":", "t", "d", "1", "\r", "\n", "E", "N", "D",
    ":", "V", "T", "O", "D", "O", "\r", "\n", "E", "N", "D", ":", "V", "C",
    "A", "L", "E", "N", "D", "A", "R", "\r", "\n">>
\* two VEVENT blocks, ev1 with a zoned start and then the all-day ev3
ICS_home1 ==
  <<"B", "E", "G", "I", "N", ":", "V", "C", "A", "L", "E", "N", "D", "A",
    "R", "\r", "\n", "B", "E", "G", "I", "N", ":", "V", "E", "V", "E", "N",
    "T", "\r", "\n", "U", "I", "D", ":", "e", "v", "1", "\r", "\n", "D", "T",
    "S", "T", "A", "R", "T", ";", "T", "Z", "I", "D", "=", "E", "u", "r",
    "o", "p", "e", "/", "P", "a", "r", "i", "s", ":", "2", "0", "2", "6",
    "0", "1", "3", "0", "T", "0", "9", "0", "0", "0", "0", "\r", "\n", "E",
    "N", "D", ":", "V", "E", "V", "E", "N", "T", "\r", "\n", "B", "E", "G",
    "I", "N", ":", "V", "E", "V", "E", "N", "T", "\r", "\n", "U", "I", "D",
    ":", "e", "v", "3", "\r", "\n", "D", "T", "S", "T", "A", "R", "T", ";",
    "V", "A", "L", "U", "E", "=", "D", "A", "T", "E", ":", "2", "0", "2",
    "6", "0", "1", "3", "1", "\r", "\n", "E", "N", "D", ":", "V", "E", "V",
    "E", "N", "T", "\r", "\n", "E", "N", "D", ":", "V", "C", "A", "L", "E",
    "N", "D", "A", "R", "\r", "\n">>
CalendarObjects ==
  [u \in {"/cal/work/", "/cal/home/"} |->
     IF u = "/cal/work/"
     THEN << [url |-> "/cal/work/1.ics", data |-> ICS_work1],
             [url |-> "/cal/work/2.ics", data |-> ICS_work2] >>
     ELSE << [url |-> "/cal/home/1.ics", data |-> ICS_home1] >>]

\* an oracle: the HTTP statuses and the store the endpoints answer from
BaseOracle ==
  [sessOk |-> TRUE,
   doc |-> SessionDoc(Some("u1"), <<"u1">>, Some("downloadUrl")),
   fail |-> {},
   mailboxes |-> MailboxesFull,
   identities |-> <<ID_alias, ID_main>>,
   emails |-> StoreEmails,
   matches |-> <<"e1", "e2">>,
   createFails |-> FALSE,
   submission |-> "created",
   notUpdated |-> {},
   davFail |-> {},
   calendars |-> <<CAL_work, CAL_home>>,
   objects |-> CalendarObjects,
   contactsOk |-> TRUE]

\* the session GET's outcomes: they matter only while no session is memoised
AnySessionOracles ==
  {[BaseOracle EXCEPT !.sessOk = FALSE]} \cup {[BaseOracle EXCEPT !.doc = d] : d \in SessionDocs}
SessionOracles == IF IsSome(session) THEN {BaseOracle} ELSE AnySessionOracles

\* an oracle with the fields of d overridden
With(o, d) == [k \in DOMAIN o |-> IF k \in DOMAIN d THEN d[k] ELSE o[k]]
\* no POST of the invocation fails / exactly the k-th one does
NoFail == [fail |-> {}]
FailAt(n) == {[fail |-> {k}] : k \in 1..n}
\* the cases of one operation: each variation of the arguments against the base
\* oracle, and the base arguments against each deviation of the oracle
Cases(argVariants, base, devs) ==
  {<<a, NoFail>> : a \in argVariants \cup {base}} \cup {<<base, d>> : d \in devs}

Limits == {None, Some(0), Some(1), Some(51), Some(MaxLimit)}
IdLists == UNION {[1..n -> {"e1", "e3"}] : n \in 0..MaxIds}
OptIdLists == {None} \cup {Some(ids) : ids \in IdLists}

(***************************************************************************)
(* Actions.                                                                *)
(***************************************************************************)
\* no invocation is awaiting its reply
Idle == [op |-> "", direct |-> FALSE, args |-> [none |-> None], net |-> <<>>,
         reads |-> <<>>, thrown |-> <<>>, ok |-> TRUE, err |-> NoError, val |-> None]
Ready == last = Idle

\* the invocation settles with the result r
Finish(op, direct, args, r) ==
  /\ jmapClient' = r.ctx.jmapClient
  /\ session' = r.ctx.session
  /\ sessionGets' = r.ctx.gets
  /\ caldavClient' = r.ctx.caldavClient
  /\ dav' = r.ctx.dav
  /\ last' = [op |-> op, direct |-> direct, args |-> args, net |-> r.ctx.net,
              reads |-> r.ctx.reads, thrown |-> r.ctx.thrown,
              ok |-> r.ok, err |-> r.err, val |-> r.val]
  /\ UNCHANGED env

\* one tool invocation through the dispatcher
Invoke(name, args, o) == Finish(name, FALSE, args, CallTool(Ctx, o, name, args))

NoArgs == [none |-> None]

list_mailboxes ==
  /\ Ready
  /\ \E o \in AnySessionOracles, d \in {NoFail} \cup FailAt(1) :
       Invoke("list_mailboxes", NoArgs, With(o, d))

list_emails ==
  /\ Ready
  /\ \E o \in SessionOracles,
        c \in Cases({[mailboxId |-> Some("mbInbox"), limit |-> l] : l \in Limits},
                    [mailboxId |-> None, limit |-> None], FailAt(1)) :
       Invoke("list_emails", c[1], With(o, c[2]))

get_email ==
  /\ Ready
  /\ \E o \in SessionOracles,
        c \in Cases({[emailId |-> e] : e \in {None, Some("e3")}},
                    [emailId |-> Some("e1")], FailAt(1)) :
       Invoke("get_email", c[1], With(o, c[2]))

\* the arguments of send_email: one complete message and its variations
SendArgs ==
  [to |-> Some(<<"a@example.com">>), cc |-> None, bcc |-> None, from |-> None,
   mailboxId |-> None, subject |-> Some("Hi"), textBody |-> Some("text"), htmlBody |-> None]
SendArgsSet ==
  {[SendArgs EXCEPT !.textBody = t, !.htmlBody = h] :
     t \in {None, Some("text")}, h \in {None, Some("<p>html</p>")}}
  \cup {[SendArgs EXCEPT !.from = f] :
          f \in {Some("alias@example.com"), Some("other@example.com"),
                 Some("ME@EXAMPLE.COM")}}
  \cup {[SendArgs EXCEPT !.mailboxId = Some("mbArchive")]}
  \cup {[SendArgs EXCEPT !.to = to] : to \in {None, Some(<<>>)}}
  \cup {[SendArgs EXCEPT !.subject = None]}
  \cup {[SendArgs EXCEPT !.cc = Some(<<"c@example.com">>), !.bcc = Some(<<"b@example.com">>)]}
\* what the store may hold, or answer, when a message is sent
SendDevs ==
  FailAt(3)
  \cup {[mailboxes |-> m] : m \in {MailboxesNoRoles, MailboxesNoDrafts, MailboxesNoSent}}
  \cup {[identities |-> i] : i \in {<<>>, <<ID_alias>>}}
  \cup {[createFails |-> TRUE]}
  \cup {[submission |-> x] : x \in {"notCreated", "error"}}

\* each variation alone, and a from address that is an identity of another
\* account's against an account holding one identity
SendCases ==
  Cases(SendArgsSet, SendArgs, SendDevs)
    \cup {<<[SendArgs EXCEPT !.from = Some("me@example.com")], [identities |-> <<ID_alias>>]>>}

send_email ==
  /\ Ready
  /\ \E o \in SessionOracles, c \in SendCases :
       Invoke("send_email", c[1], With(o, c[2]))

search_emails ==
  /\ Ready
  /\ \E o \in SessionOracles,
        c \in Cases({[query |-> Some("invoice"), limit |-> l] : l \in Limits}
                      \cup {[query |-> None, limit |-> None]},
                    [query |-> Some("invoice"), limit |-> None], FailAt(1)) :
       Invoke("search_emails", c[1], With(o, c[2]))

ContactsDevs == {[contactsOk |-> FALSE]}

list_contacts ==
  /\ Ready
  /\ \E c \in Cases({}, [limit |-> None], ContactsDevs) :
       Invoke("list_contacts", c[1], With(BaseOracle, c[2]))

get_contact ==
  /\ Ready
  /\ \E c \in Cases({[contactId |-> None]}, [contactId |-> Some("c1")], ContactsDevs) :
       Invoke("get_contact", c[1], With(BaseOracle, c[2]))

search_contacts ==
  /\ Ready
  /\ \E c \in Cases({[query |-> None, limit |-> None]}, [query |-> Some("ann"), limit |-> None],
                    ContactsDevs) :
       Invoke("search_contacts", c[1], With(BaseOracle, c[2]))

\* the DAV requests of one invocation: one of the first n fails, or the
\* contacts/calendar endpoint does
DavDevs(n) == {[davFail |-> {k}] : k \in 1..n} \cup ContactsDevs

list_calendars ==
  /\ Ready
  /\ \E c \in Cases({}, NoArgs, DavDevs(2)) :
       Invoke("list_calendars", c[1], With(BaseOracle, c[2]))

EventsArgs ==
  [calendarId |-> None, startDate |-> Some("2026-01-01"), endDate |-> Some("2026-12-31"),
   limit |-> None]

list_calendar_events ==
  /\ Ready
  /\ \E c \in Cases({[EventsArgs EXCEPT !.calendarId = x] : x \in {Some("/cal/work/"), Some("/cal/none/")}}
                      \cup {[EventsArgs EXCEPT !.startDate = None, !.endDate = None],
                            [EventsArgs EXCEPT !.startDate = None],
                            [EventsArgs EXCEPT !.endDate = None],
                            [EventsArgs EXCEPT !.limit = Some(1)]},
                    EventsArgs, DavDevs(3)) :
       Invoke("list_calendar_events", c[1], With(BaseOracle, c[2]))

get_calendar_event ==
  /\ Ready
  /\ \E c \in Cases({[eventId |-> e] : e \in {None, Some("ev9")}}, [eventId |-> Some("ev1")],
                    DavDevs(3)) :
       Invoke("get_calendar_event", c[1], With(BaseOracle, c[2]))

CreateArgs ==
  [calendarId |-> Some("/cal/work/"), title |-> Some("Lunch"),
   start |-> Some("2026-02-01T12:00:00Z"), end |-> Some("2026-02-01T13:00:00Z")]

create_calendar_event ==
  /\ Ready
  /\ \E c \in Cases({[CreateArgs EXCEPT !.calendarId = None], [CreateArgs EXCEPT !.title = None],
                     [CreateArgs EXCEPT !.start = None], [CreateArgs EXCEPT !.end = None]},
                    CreateArgs, ContactsDevs) :
       Invoke("create_calendar_event", c[1], With(BaseOracle, c[2]))

list_identities ==
  /\ Ready
  /\ \E o \in SessionOracles, c \in Cases({}, NoArgs, FailAt(1) \cup {[identities |-> <<>>]}) :
       Invoke("list_identities", c[1], With(o, c[2]))

get_recent_emails ==
  /\ Ready
  /\ \E o \in SessionOracles,
        c \in Cases({[limit |-> l, mailboxName |-> None] : l \in Limits}
                      \cup {[limit |-> None, mailboxName |-> Some(n)] : n \in {"Sent", "nowhere"}},
                    [limit |-> None, mailboxName |-> None],
                    FailAt(2) \cup {[mailboxes |-> MailboxesNoInbox]}) :
       Invoke("get_recent_emails", c[1], With(o, c[2]))

\* one Email/set update is refused by HTTP, or for one of its ids
UpdateDevs(n) == FailAt(n) \cup {[notUpdated |-> {"e3"}]}

mark_email_read ==
  /\ Ready
  /\ \E o \in SessionOracles,
        c \in Cases({[emailId |-> e, read |-> None] : e \in {None, Some("e1")}}
                      \cup {[emailId |-> Some("e3"), read |-> r] : r \in {Some(TRUE), Some(FALSE)}},
                    [emailId |-> Some("e3"), read |-> None], UpdateDevs(1)) :
       Invoke("mark_email_read", c[1], With(o, c[2]))

delete_email ==
  /\ Ready
  /\ \E o \in SessionOracles,
        c \in Cases({[emailId |-> e] : e \in {None, Some("e1")}}, [emailId |-> Some("e3")],
                    UpdateDevs(2)
                    \cup {[mailboxes |-> m] : m \in {MailboxesNoRoles, MailboxesNoTrash}}) :
       Invoke("delete_email", c[1], With(o, c[2]))

move_email ==
  /\ Ready
  /\ \E o \in SessionOracles,
        c \in Cases({[emailId |-> None, targetMailboxId |-> Some("mbArchive")],
                     [emailId |-> Some("e3"), targetMailboxId |-> None]},
                    [emailId |-> Some("e3"), targetMailboxId |-> Some("mbArchive")],
                    UpdateDevs(1)) :
       Invoke("move_email", c[1], With(o, c[2]))

get_email_attachments ==
  /\ Ready
  /\ \E o \in SessionOracles,
        c \in Cases({[emailId |-> e] : e \in {None, Some("e2"), Some("e3")}},
                    [emailId |-> Some("e1")], FailAt(1)) :
       Invoke("get_email_attachments", c[1], With(o, c[2]))

download_attachment ==
  /\ Ready
  /\ \E o \in SessionOracles,
        c \in Cases({[emailId |-> Some("e1"), attachmentId |-> a] :
                       a \in {None, Some("b1"), Some("0"), Some("1"), Some("x")}}
                      \cup {[emailId |-> e, attachmentId |-> Some("p1")] :
                              e \in {None, Some("e2"), Some("e3")}},
                    [emailId |-> Some("e1"), attachmentId |-> Some("p1")],
                    FailAt(1) \cup {[doc |-> SessionDoc(Some("u1"), <<"u1">>, None)]}) :
       Invoke("download_attachment", c[1], With(o, c[2]))

NoFilters ==
  [query |-> None, from |-> None, to |-> None, subject |-> None, hasAttachment |-> None,
   isUnread |-> None, mailboxId |-> None, after |-> None, before |-> None, limit |-> None]
FilterSet ==
  {[NoFilters EXCEPT !.limit = l] : l \in Limits}
  \cup {[NoFilters EXCEPT !.query = Some("invoice"), !.from = Some("a@example.com"),
                          !.to = Some("me@example.com"), !.subject = Some("Hi"),
                          !.hasAttachment = Some(TRUE), !.isUnread = u,
                          !.mailboxId = Some("mbInbox"), !.after = Some("2026-01-01"),
                          !.before = Some("2026-12-31")] : u \in {None, Some(TRUE), Some(FALSE)}}
  \cup {[NoFilters EXCEPT !.isUnread = u] : u \in {Some(TRUE), Some(FALSE)}}

advanced_search ==
  /\ Ready
  /\ \E o \in SessionOracles, c \in Cases(FilterSet, NoFilters, FailAt(1)) :
       Invoke("advanced_search", c[1], With(o, c[2]))

get_thread ==
  /\ Ready
  /\ \E o \in SessionOracles,
        c \in Cases({[threadId |-> t] : t \in {None, Some("e1"), Some("t9")}},
                    [threadId |-> Some("t1")], FailAt(2)) :
       Invoke("get_thread", c[1], With(o, c[2]))

get_mailbox_stats ==
  /\ Ready
  /\ \E o \in SessionOracles,
        c \in Cases({[mailboxId |-> m] : m \in {Some("mbInbox"), Some("mbNone")}},
                    [mailboxId |-> None], FailAt(1)) :
       Invoke("get_mailbox_stats", c[1], With(o, c[2]))

get_account_summary ==
  /\ Ready
  /\ \E o \in SessionOracles, c \in Cases({}, NoArgs, FailAt(2) \cup {[identities |-> <<>>]}) :
       Invoke("get_account_summary", c[1], With(o, c[2]))

bulk_mark_read ==
  /\ Ready
  /\ \E o \in SessionOracles,
        c \in Cases({[emailIds |-> ids, read |-> None] : ids \in OptIdLists}
                      \cup {[emailIds |-> Some(<<"e1", "e3">>), read |-> r] :
                              r \in {Some(TRUE), Some(FALSE)}},
                    [emailIds |-> Some(<<"e1", "e3">>), read |-> None], UpdateDevs(1)) :
       Invoke("bulk_mark_read", c[1], With(o, c[2]))

bulk_move ==
  /\ Ready
  /\ \E o \in SessionOracles,
        c \in Cases({[emailIds |-> ids, targetMailboxId |-> Some("mbArchive")] : ids \in OptIdLists}
                      \cup {[emailIds |-> Some(<<"e1", "e3">>), targetMailboxId |-> None]},
                    [emailIds |-> Some(<<"e1", "e3">>), targetMailboxId |-> Some("mbArchive")],
                    UpdateDevs(1)) :
       Invoke("bulk_move", c[1], With(o, c[2]))

bulk_delete ==
  /\ Ready
  /\ \E o \in SessionOracles,
        c \in Cases({[emailIds |-> ids] : ids \in OptIdLists},
                    [emailIds |-> Some(<<"e1", "e3">>)],
                    UpdateDevs(2)
                    \cup {[mailboxes |-> m] : m \in {MailboxesNoRoles, MailboxesNoTrash}}) :
       Invoke("bulk_delete", c[1], With(o, c[2]))

check_function_availability ==
  /\ Ready
  /\ \E o \in SessionOracles : Invoke("check_function_availability", NoArgs, o)

\* the limits of a test run: absent, below, at and above the range 1..10
TestLimits == {None, Some(0), Some(1), Some(11)}
\* a run rehearsed or executed at each limit, an executed run against each
\* deviation of the store, and a rehearsed one against an empty inbox and
\* against a failing read
TestBulkCases ==
  Cases({[dryRun |-> d, limit |-> l] : d \in {None, Some(TRUE), Some(FALSE)}, l \in TestLimits},
        [dryRun |-> Some(FALSE), limit |-> None],
        FailAt(4) \cup {[matches |-> <<>>]})
    \cup {<<[dryRun |-> d, limit |-> None], dev>> :
            d \in {None, Some(TRUE)}, dev \in FailAt(2) \cup {[matches |-> <<>>]}}

test_bulk_operations ==
  /\ Ready
  /\ \E o \in SessionOracles, c \in TestBulkCases :
       Invoke("test_bulk_operations", c[1], With(o, c[2]))

\* a name the switch has no case for
unknown_tool ==
  /\ Ready
  /\ Invoke("no_such_tool", NoArgs, BaseOracle)

(***************************************************************************)
(* The exported JmapClient used directly, without the dispatcher, on the   *)
(* instance the dispatcher holds.                                          *)
(***************************************************************************)
client_getSession ==
  /\ Ready
  /\ jmapClient
  /\ \E o \in AnySessionOracles :
       Finish("getSession", TRUE, NoArgs, getSession(Ctx, o))

\* the email object of a direct call: to and subject are always present
EmailArg(a) == [a EXCEPT !.to = Val(a.to), !.subject = Val(a.subject)]

client_sendEmail ==
  /\ Ready
  /\ jmapClient
  /\ \E o \in SessionOracles,
        c \in Cases({[SendArgs EXCEPT !.textBody = t, !.htmlBody = h] :
                       t \in {None, Some("text")}, h \in {None, Some("<p>html</p>")}},
                    SendArgs, FailAt(3)) :
       Finish("sendEmail", TRUE, c[1], sendEmail(Ctx, With(o, c[2]), EmailArg(c[1])))

client_bulkMarkRead ==
  /\ Ready
  /\ jmapClient
  /\ \E o \in SessionOracles,
        c \in Cases({[emailIds |-> Some(ids), read |-> None] : ids \in IdLists}
                      \cup {[emailIds |-> Some(<<"e1", "e3">>), read |-> Some(FALSE)]},
                    [emailIds |-> Some(<<"e1", "e3">>), read |-> None], UpdateDevs(1)) :
       Finish("bulkMarkRead", TRUE, c[1],
              bulkMarkRead(Ctx, With(o, c[2]), Val(c[1].emailIds), c[1].read))

client_bulkMove ==
  /\ Ready
  /\ jmapClient
  /\ \E o \in SessionOracles,
        c \in Cases({[emailIds |-> Some(ids), targetMailboxId |-> Some("mbArchive")] :
                       ids \in IdLists},
                    [emailIds |-> Some(<<"e1", "e3">>), targetMailboxId |-> Some("mbArchive")],
                    UpdateDevs(1)) :
       Finish("bulkMove", TRUE, c[1],
              bulkMove(Ctx, With(o, c[2]), Val(c[1].emailIds), Val(c[1].targetMailboxId)))

client_bulkDelete ==
  /\ Ready
  /\ jmapClient
  /\ \E o \in SessionOracles,
        c \in Cases({[emailIds |-> Some(ids)] : ids \in IdLists},
                    [emailIds |-> Some(<<"e1", "e3">>)],
                    UpdateDevs(2) \cup {[mailboxes |-> MailboxesNoTrash]}) :
       Finish("bulkDelete", TRUE, c[1], bulkDelete(Ctx, With(o, c[2]), Val(c[1].emailIds)))

\* the reply of the latest invocation is delivered to its caller
Return ==
  /\ last # Idle
  /\ last' = Idle
  /\ UNCHANGED <<env, jmapClient, session, sessionGets, caldavClient, dav>>

\* the configurations the server is started with
Environments ==
  [FASTMAIL_API_TOKEN : {None, Some("token")},
   FASTMAIL_ACCOUNT_ID : {None, Some(""), Some("uEnv")},
   FASTMAIL_CALDAV_API_TOKEN : {None, Some("password")}]

Init ==
  /\ env \in Environments
  /\ jmapClient = FALSE
  /\ session = None
  /\ sessionGets = 0
  /\ caldavClient = FALSE
  /\ dav = [client |-> FALSE, loggedIn |-> FALSE]
  /\ last = Idle

Next ==
  \/ list_mailboxes
  \/ list_emails
  \/ get_email
  \/ send_email
  \/ search_emails
  \/ list_contacts
  \/ get_contact
  \/ search_contacts
  \/ list_calendars
  \/ list_calendar_events
  \/ get_calendar_event
  \/ create_calendar_event
  \/ list_identities
  \/ get_recent_emails
  \/ mark_email_read
  \/ delete_email
  \/ move_email
  \/ get_email_attachments
  \/ download_attachment
  \/ advanced_search
  \/ get_thread
  \/ get_mailbox_stats
  \/ get_account_summary
  \/ bulk_mark_read
  \/ bulk_move
  \/ bulk_delete
  \/ check_function_availability
  \/ test_bulk_operations
  \/ unknown_tool
  \/ client_getSession
  \/ client_sendEmail
  \/ client_bulkMarkRead
  \/ client_bulkMove
  \/ client_bulkDelete
  \/ Return

Spec == Init /\ [][Next]_vars

(***************************************************************************)
(* Properties.  Each speaks of the latest invocation: the requests it      *)
(* made (last.net), the response entries it read (last.reads) and its      *)
(* outcome.                                                                *)
(***************************************************************************)
Posts == {p \in DOMAIN last.net : last.net[p].kind = "POST"}
CallsOf(p) == last.net[p].body.methodCalls
FailedPosts == {p \in Posts : ~last.net[p].ok}

\* C1: every response entry an operation reads is the one at the position, in
\* the batch's methodCalls, of the call whose result the operation takes it
\* for: response[i] is read for call[i].
C1_PositionalRead ==
  \A k \in DOMAIN last.reads :
    LET rd == last.reads[k]
    IN /\ rd.post \in Posts
       /\ rd.index < Len(CallsOf(rd.post))
       /\ At(CallsOf(rd.post), rd.index)[1] = rd.want
\* a chained batch was answered and its second entry read
C1_Witness ==
  \E k \in DOMAIN last.reads :
    /\ last.reads[k].index = 1
    /\ Len(CallsOf(last.reads[k].post)) = 2
    /\ last.reads[k].name = last.reads[k].want
    /\ last.ok

MUTATING == {"Email/set", "EmailSubmission/set"}
MutatingPosts ==
  {p \in Posts : \E c \in DOMAIN CallsOf(p) : CallsOf(p)[c][1] \in MUTATING}
IsSend == last.op \in {"send_email", "sendEmail"}
\* the list a lookup of this invocation returned for the method
ListedBy(method) ==
  UNION {ToSet(last.net[p].response[1].methodResponses[1][2].list) :
           p \in {q \in Posts : /\ last.net[q].ok
                                /\ CallsOf(q)[1][1] = method}}
DraftsIds ==
  {m.id : m \in {x \in ListedBy("Mailbox/get") :
                   x.role = Some("drafts") \/ includes(toLowerCase(x.name), "draft")}}
SentIds ==
  {m.id : m \in {x \in ListedBy("Mailbox/get") :
                   x.role = Some("sent") \/ includes(toLowerCase(x.name), "sent")}}
\* the batch is the create-then-submit pair the message calls for
SendShape(p) ==
  LET calls == CallsOf(p)
      draft == calls[1][2].create.draft
      submission == calls[2][2].create.submission
      update == calls[2][2].onSuccessUpdateEmail["#submission"]
  IN /\ Len(calls) = 2
     /\ calls[1][1] = "Email/set" /\ DOMAIN calls[1][2].create = {"draft"}
     /\ \E id \in ListedBy("Identity/get") :
          /\ draft.from = <<[email |-> id.email]>>
          /\ submission.identityId = id.id
          /\ Truthy(last.args.from) => toLowerCase(id.email) = toLowerCase(Val(last.args.from))
     /\ DOMAIN draft.bodyValues = (IF Truthy(last.args.textBody) THEN {"text"} ELSE {})
                                  \cup (IF Truthy(last.args.htmlBody) THEN {"html"} ELSE {})
     /\ \A b \in DOMAIN draft.bodyValues :
          Some(draft.bodyValues[b].value)
            = (IF b = "text" THEN last.args.textBody ELSE last.args.htmlBody)
     /\ IF Truthy(last.args.mailboxId)
        THEN DOMAIN draft.mailboxIds = {Val(last.args.mailboxId)}
        ELSE \E d \in DraftsIds : DOMAIN draft.mailboxIds = {d}
     /\ calls[2][1] = "EmailSubmission/set"
     /\ submission.emailId = "#draft"
     /\ \E sent \in SentIds : DOMAIN update.mailboxIds = {sent}
     /\ update.keywords = KEYWORDS_SEEN

\* C2: a send makes at most one mutating round trip, makes exactly one when
\* it succeeds, and that batch is Email/set creating the draft (sender the
\* chosen identity, the supplied body, the supplied mailbox else Drafts)
\* followed by EmailSubmission/set of "#draft" whose on-success update puts
\* the email in exactly the Sent mailbox and marks it seen.
C2_SendBatch ==
  IsSend =>
    /\ Cardinality(MutatingPosts) <= 1
    /\ last.ok => Cardinality(MutatingPosts) = 1
    /\ \A p \in MutatingPosts : SendShape(p)
\* a message was sent from a chosen identity into a supplied mailbox
C2_Witness ==
  /\ last.op = "send_email" /\ last.ok
  /\ Cardinality(MutatingPosts) = 1
  /\ Truthy(last.args.mailboxId)

C4_SessionOnce ==
  [][/\ sessionGets' <= 1
     /\ IsSome(session) =>
          /\ session' = session
          /\ sessionGets' = sessionGets
          /\ \A k \in DOMAIN last'.net : last'.net[k].kind # "GET"
          /\ last'.op = "getSession" => last'.ok /\ last'.val = Val(session)]_vars
\* getSession was called on a client that had its session already
C4_Witness ==
  /\ last.op = "getSession" /\ last.ok /\ last.net = <<>>
  /\ sessionGets = 1 /\ IsSome(session)

SuccessfulGets == {k \in DOMAIN last.net : last.net[k].kind = "GET" /\ last.net[k].ok}
\* C5: the accountId of a session just fetched is the environment override
\* when that is set and non-empty, else the primary mail account of the
\* session document when present, else the first listed account.
C5_AccountIdOrder ==
  \A k \in SuccessfulGets :
    LET doc == Val(last.net[k].doc)
        override == env.FASTMAIL_ACCOUNT_ID
    IN /\ IsSome(session)
       /\ Val(session).accountId =
            (IF IsSome(override) /\ Val(override) # "" THEN override
             ELSE IF IsSome(doc.primaryMail) THEN doc.primaryMail
             ELSE Some(doc.accounts[1]))
\* with no override and no primary mail account the first listed account is used
C5_Witness ==
  \E k \in SuccessfulGets :
    /\ ~Truthy(env.FASTMAIL_ACCOUNT_ID)
    /\ ~IsSome(Val(last.net[k].doc).primaryMail)
    /\ Val(session).accountId = Some("u2")

\* the limits the invocation transmitted in Email/query calls
QueryLimits ==
  {CallsOf(p)[1][2].limit : p \in {q \in Posts : CallsOf(q)[1][1] = "Email/query"}}
\* the ceiling of each listing tool; list_emails and search_emails define
\* none, so they are held to the largest ceiling the program has
LimitCeiling(op) ==
  IF op = "get_recent_emails" THEN RECENT_LIMIT_CEILING ELSE SEARCH_LIMIT_CEILING
\* C6: whatever limit the caller supplies, the limit a listing tool transmits
\* in its Email/query call does not exceed the operation's ceiling.
C6_LimitClamped ==
  last.op \in {"list_emails", "search_emails", "get_recent_emails", "advanced_search"} =>
    \A l \in QueryLimits : l <= LimitCeiling(last.op)

\* the arguments each tool's input schema lists as required
Required(name) ==
  CASE name \in {"get_email", "mark_email_read", "delete_email", "get_email_attachments"}
         -> {"emailId"}
    [] name = "send_email" -> {"to", "subject"}
    [] name \in {"search_emails", "search_contacts"} -> {"query"}
    [] name = "get_contact" -> {"contactId"}
    [] name = "list_calendar_events" -> {"startDate", "endDate"}
    [] name = "get_calendar_event" -> {"eventId"}
    [] name = "create_calendar_event" -> {"calendarId", "title", "start", "end"}
    [] name = "move_email" -> {"emailId", "targetMailboxId"}
    [] name = "download_attachment" -> {"emailId", "attachmentId"}
    [] name = "get_thread" -> {"threadId"}
    [] name \in {"bulk_mark_read", "bulk_delete"} -> {"emailIds"}
    [] name = "bulk_move" -> {"emailIds", "targetMailboxId"}
    [] OTHER -> {}
OmitsRequired == \E f \in Required(last.op) : last.args[f] = None
\* C7: a tool invocation, on a configured server, that omits an argument its
\* schema requires ends in an invalid-argument error having made no network
\* request.
C7_RequiredBeforeNetwork ==
  (~last.direct /\ jmapClient /\ OmitsRequired) =>
    /\ ~last.ok /\ last.err.code = "InvalidParams"
    /\ last.net = <<>>

\* C8: a send with neither textBody nor htmlBody, through the tool or through
\* the client method, fails having made no network request.
C8_BodyBeforeNetwork ==
  (/\ IsSend
   /\ last.direct \/ jmapClient
   /\ ~Truthy(last.args.textBody) /\ ~Truthy(last.args.htmlBody)) =>
    ~last.ok /\ last.net = <<>>

BULK_TOOLS == {"bulk_mark_read", "bulk_move", "bulk_delete"}
BULK_METHODS == {"bulkMarkRead", "bulkMove", "bulkDelete"}
\* the emailIds a bulk operation was given, undefined when omitted
GivenIds ==
  IF last.op \in BULK_METHODS \cup BULK_TOOLS THEN last.args.emailIds ELSE None
\* C9: a bulk operation, tool or client method, given an empty ID array fails
\* having made no network request.
C9_EmptyBeforeNetwork ==
  (/\ last.direct \/ jmapClient
   /\ GivenIds = Some(<<>>)) =>
    ~last.ok /\ last.net = <<>>

\* the update maps of the Email/set calls the invocation sent
UpdateCalls ==
  {<<p, c>> \in Posts \X (1..2) :
     /\ c <= Len(CallsOf(p))
     /\ CallsOf(p)[c][1] = "Email/set"
     /\ "update" \in DOMAIN CallsOf(p)[c][2]}
\* the mutation the operation asks for, where its arguments determine it
AskedFor(patch) ==
  CASE last.op \in {"bulk_mark_read", "bulkMarkRead"} ->
         patch = [keywords |-> IF last.args.read = Some(FALSE) THEN EmptyObject
                               ELSE KEYWORDS_SEEN]
    [] last.op \in {"bulk_move", "bulkMove"} ->
         patch = [mailboxIds |-> IdMap(Val(last.args.targetMailboxId))]
    [] OTHER -> /\ DOMAIN patch = {"mailboxIds"}
                /\ \E m \in ListedBy("Mailbox/get") :
                     /\ m.role = Some("trash") \/ includes(toLowerCase(m.name), "trash")
                     /\ patch.mailboxIds = IdMap(m.id)
\* C10: a bulk operation given a non-empty ID array sends at most one
\* Email/set, exactly one when it succeeds, and that call's update map has
\* exactly the given IDs as keys, each with the one mutation asked for.
C10_OneUpdateForAll ==
  (IsSome(GivenIds) /\ GivenIds # Some(<<>>)) =>
    /\ Cardinality(UpdateCalls) <= 1
    /\ last.ok => Cardinality(UpdateCalls) = 1
    /\ \A u \in UpdateCalls :
         LET update == CallsOf(u[1])[u[2]][2].update
         IN /\ DOMAIN update = ToSet(Val(GivenIds))
            /\ \A id \in DOMAIN update : AskedFor(update[id])
\* two different emails were moved to the trash by one call
C10_Witness ==
  /\ last.op = "bulk_delete" /\ last.ok
  /\ Cardinality(ToSet(Val(GivenIds))) = 2
  /\ Cardinality(UpdateCalls) = 1

SINGLE_ENTITY_TOOLS ==
  {"get_email", "get_email_attachments", "download_attachment", "get_mailbox_stats",
   "get_thread", "mark_email_read", "move_email", "delete_email"}
\* the response entries of the batches of the invocation that were answered 2xx
AnsweredEntries ==
  UNION {ToSet(Val(last.net[p].response).methodResponses) :
           p \in {q \in Posts : last.net[q].ok}}
\* the id the invocation targets
TargetId ==
  CASE last.op = "get_mailbox_stats" -> last.args.mailboxId
    [] last.op = "get_thread" -> last.args.threadId
    [] OTHER -> last.args.emailId
\* an answered entry reports the targeted entity as not found, not updated or
\* not created
ReportsTarget(entry) ==
  LET name == entry[1]
      result == entry[2]
  IN CASE last.op \in {"get_email", "get_email_attachments", "download_attachment",
                       "get_mailbox_stats"} ->
            /\ name \in {"Email/get", "Mailbox/get"}
            /\ IsSome(TargetId)
            /\ Val(TargetId) \in ToSet(result.notFound)
       [] last.op = "get_thread" -> name = "Thread/get" /\ result.notFound # <<>>
       [] last.op \in {"mark_email_read", "move_email", "delete_email"} ->
            /\ name = "Email/set"
            /\ IsSome(result.notUpdated)
            /\ Val(TargetId) \in DOMAIN Val(result.notUpdated)
       [] OTHER ->
            /\ name \in {"Email/set", "EmailSubmission/set"}
            /\ "notCreated" \in DOMAIN result
            /\ IsSome(result.notCreated)
\* C11: a single-entity operation whose answered response reports its target
\* as not found, not updated or not created ends in a failure carrying a
\* message, never in a normal result.
C11_ReportedFailureFails ==
  (/\ last.op \in SINGLE_ENTITY_TOOLS \cup {"send_email", "sendEmail"}
   /\ \E entry \in AnsweredEntries : ReportsTarget(entry)) =>
    ~last.ok /\ last.err.message # <<>>

\* the errors thrown during the invocation that are plain Errors (thrown by a
\* backend call) and those that are structured tool errors
PlainThrown == SelectSeq(last.thrown, LAMBDA e : ~e.mcp)
StructuredThrown == SelectSeq(last.thrown, LAMBDA e : e.mcp)
DOWNLOAD_FAILED ==
  <<"Attachment download failed. Verify emailId and attachmentId and try again.">>
\* the message is one prefix followed by the underlying message
Carries(message, underlying) ==
  /\ Len(message) = Len(underlying) + 1
  /\ message[1] \in {"Tool execution failed: ", "Thread access failed: "}
  /\ SubSeq(message, 2, Len(message)) = underlying
DownloadFailed ==
  /\ last.op = "download_attachment"
  /\ Truthy(last.args.emailId) /\ Truthy(last.args.attachmentId)
  /\ PlainThrown # <<>>
\* C13: for download_attachment with both arguments present, whatever backend
\* failure occurred, the caller receives the same internal error made of the
\* one fixed message, holding no part of any underlying error's message.
C13_SameErrorWhateverFailure ==
  DownloadFailed =>
    /\ ~last.ok
    /\ last.err = McpError("InternalError", DOWNLOAD_FAILED)
    /\ \A k \in DOMAIN PlainThrown :
         ToSet(PlainThrown[k].message) \cap ToSet(last.err.message) = {}
\* the attachment was not found in an email that exists, and the fixed message
\* was surfaced
C13_Witness ==
  /\ DownloadFailed
  /\ PlainThrown[1].message = <<"Attachment not found.">>
  /\ last.err.message = DOWNLOAD_FAILED

\* the backends queried during the invocation
BackendsQueried == {last.net[i].kind : i \in DOMAIN last.net} \cap {"CALDAV", "CONTACTS"}
CalDAVConfigured == Truthy(env.FASTMAIL_CALDAV_API_TOKEN)
\* the backend list_calendars and list_calendar_events used is the one the
\* configuration selects, and no other was queried.  The handler builds the
\* mail client before the switch (line 694), so the calendar case is reached,
\* and a backend selected, only with FASTMAIL_API_TOKEN set.
CalendarBackendChoice ==
  last.op \in {"list_calendars", "list_calendar_events"} =>
    /\ BackendsQueried \subseteq (IF CalDAVConfigured THEN {"CALDAV"} ELSE {"CONTACTS"})
    /\ Truthy(env.FASTMAIL_API_TOKEN) => (caldavClient = CalDAVConfigured)
    /\ caldavClient => CalDAVConfigured
    /\ last.ok => BackendsQueried # {}
\* C14: list_calendars and list_calendar_events select and query the CalDAV
\* backend when a CalDAV token is configured and the contacts/calendar backend
\* only when none is, never both in one invocation; and a CalDAV client once
\* selected stays selected for every later invocation.
C14_CalDAVPreferred ==
  /\ []CalendarBackendChoice
  /\ [][caldavClient => caldavClient']_vars
\* events were listed from CalDAV alone, through the memoised client
C14_Witness ==
  /\ last.op = "list_calendar_events" /\ last.ok
  /\ CalDAVConfigured /\ caldavClient
  /\ BackendsQueried = {"CALDAV"}

(***************************************************************************)
(* The parser and the two reading operations of the CalDAV client applied  *)
(* to texts.  The initial state draws one input: a property value for      *)
(* formatICSDate, a VEVENT block with one property line under test for     *)
(* extractProp and parseICS, a calendar object made of components for      *)
(* parseICS, or a collection of two calendar objects for getCalendarEvents *)
(* and getCalendarEventById.  Every input keeps the parts it was built     *)
(* from next to its text.                                                  *)
(***************************************************************************)
\* the most continuation lines a folded value has
MaxFolds == 2
\* the most components a calendar object has
MaxBlocks == 2
\* the longest value without a separator given to formatICSDate
MaxDateLen == 9

\* every sequence over S of length at most n
SeqsUpTo(S, n) == UNION {[1..k -> S] : k \in 0..n}

CRLF == <<CR, LF>>
EOLs == {CRLF, <<LF>>}

\* values for formatICSDate: every string of 7 to MaxDateLen characters over a
\* digit and a letter, date-times and their near misses, hyphenated values
DATE_a == <<"2", "0", "2", "6", "0", "1", "3", "0">>
DATE_b == <<"1", "9", "9", "9", "1", "2", "3", "1">>
TIME_a == <<"0", "9", "0", "0", "0", "0">>
TIME_b == <<"2", "3", "5", "9", "5", "9">>
TIME_short == <<"0", "9", "0", "0", "0">>
HYPHEN_date == <<"2", "0", "2", "6", "-", "0", "1", "-", "3", "0">>
HYPHEN_localDateTime == <<"2", "0", "2", "6", "-", "0", "1", "-", "3", "0", "T", "0", "9", ":", "0", "0", ":", "0", "0">>
HYPHEN_dateTime == <<"2", "0", "2", "6", "-", "0", "1", "-", "3", "0", "T", "0", "9", ":", "0", "0", ":", "0", "0", "Z">>
DateTimeInputs ==
  {d \o s \o t \o z : d \in {DATE_a, DATE_b}, s \in {<<"T">>, <<"t">>},
                      t \in {TIME_a, TIME_b, TIME_short},
                      z \in {<<>>, <<"Z">>, <<"z">>, <<"Z", "Z">>}}
DateInputs ==
  UNION {[1..n -> {"2", "A"}] : n \in 7..MaxDateLen}
    \cup DateTimeInputs \cup {<<>>, HYPHEN_date, HYPHEN_dateTime}

\* one property line: the name, its parameters (the text between the name and
\* the colon before the value), the value as written and as meant, and the
\* number of continuation lines the value is folded over
PARAM_tzid == <<";", "T", "Z", "I", "D", "=", "E", "u", "r", "o", "p", "e", "/", "P", "a", "r", "i", "s">>
PARAM_tzidQuoted == <<";", "T", "Z", "I", "D", "=", "\"", "(", "U", "T", "C", "+", "0", "1", ":", "0", "0", ")", " ", "B", "e", "r", "l", "i", "n", "\"">>
PARAM_language == <<";", "L", "A", "N", "G", "U", "A", "G", "E", "=", "e", "n">>
PARAM_altrep == <<";", "A", "L", "T", "R", "E", "P", "=", "\"", "c", "i", "d", ":", "p", "a", "r", "t", "1", "\"">>
VALUE_plain == <<"T", "e", "a", "m", " ", "s", "y", "n", "c">>
VALUE_commaRaw == <<"L", "u", "n", "c", "h", "\\", ",", " ", "t", "h", "e", "n", " ", "w", "a", "l", "k">>
VALUE_commaMeant == <<"L", "u", "n", "c", "h", ",", " ", "t", "h", "e", "n", " ", "w", "a", "l", "k">>
VALUE_newlineRaw == <<"A", "g", "e", "n", "d", "a", "\\", "n", "N", "o", "t", "e", "s">>
VALUE_newlineMeant == <<"A", "g", "e", "n", "d", "a", "\n", "N", "o", "t", "e", "s">>
PIECE == <<"m", "o", "r", "e">>
LINE_sequence == <<"S", "E", "Q", "U", "E", "N", "C", "E", ":", "0">>
DateProps == {DTSTART, DTEND, CREATED, LAST_MODIFIED}
TextProps == {UID, SUMMARY, DESCRIPTION, LOCATION}
DateParams == {<<>>, PARAM_tzid, PARAM_tzidQuoted}
TextParams == {<<>>, PARAM_language, PARAM_altrep}
DateValues == {[raw |-> v, meant |-> v] : v \in {DATE_a, DATE_a \o <<"T">> \o TIME_a \o <<"Z">>}}
TextValues ==
  {[raw |-> VALUE_plain, meant |-> VALUE_plain],
   [raw |-> VALUE_commaRaw, meant |-> VALUE_commaMeant],
   [raw |-> VALUE_newlineRaw, meant |-> VALUE_newlineMeant]}
\* the k-th continuation line: a space or a tab, then the next piece
Continuation(k) == (IF k % 2 = 1 THEN <<" ">> ELSE <<"\t">>) \o PIECE
RECURSIVE Folded(_, _)
Folded(eol, folds) ==
  IF folds = 0 THEN <<>> ELSE Folded(eol, folds - 1) \o eol \o Continuation(folds)
RECURSIVE Pieces(_)
Pieces(folds) == IF folds = 0 THEN <<>> ELSE Pieces(folds - 1) \o PIECE
\* a VEVENT block holding the line, followed by one more property
PropInput(name, params, value, folds, eol) ==
  [kind |-> "vevent", name |-> name, params |-> params, value |-> value,
   folds |-> folds, eol |-> eol,
   line |-> name \o params \o <<":">> \o value.raw \o Pieces(folds),
   text |-> BEGIN_VEVENT \o eol
              \o name \o params \o <<":">> \o value.raw \o Folded(eol, folds) \o eol
              \o LINE_sequence \o eol \o END_VEVENT \o eol]
PropInputs ==
  {PropInput(n, p, v, 0, e) : n \in DateProps, p \in DateParams, v \in DateValues,
                              e \in EOLs}
    \cup {PropInput(SUMMARY, p, v, f, e) : p \in TextParams, v \in TextValues,
                                           f \in 0..MaxFolds, e \in EOLs}
    \cup {PropInput(n, p, [raw |-> VALUE_plain, meant |-> VALUE_plain], f, CRLF) :
            n \in TextProps, p \in TextParams, f \in 0..1}

\* the components of a calendar object: three events, a to-do, and an event
\* whose end line is missing
VEVENT_a ==
  <<"B", "E", "G", "I", "N", ":", "V", "E", "V", "E", "N", "T", "\r", "\n",
    "U", "I", "D", ":", "a", "\r", "\n", "S", "U", "M", "M", "A", "R", "Y",
    ":", "F", "i", "r", "s", "t", "\r", "\n", "D", "T", "S", "T", "A", "R",
    "T", ":", "2", "0", "2", "6", "0", "1", "3", "0", "\r", "\n", "E", "N",
    "D", ":", "V", "E", "V", "E", "N", "T", "\r", "\n">>
VEVENT_b ==
  <<"B", "E", "G", "I", "N", ":", "V", "E", "V", "E", "N", "T", "\r", "\n",
    "U", "I", "D", ":", "b", "\r", "\n", "S", "U", "M", "M", "A", "R", "Y",
    ":", "S", "e", "c", "o", "n", "d", "\r", "\n", "D", "T", "S", "T", "A",
    "R", "T", ":", "2", "0", "2", "6", "0", "1", "3", "1", "T", "1", "0",
    "0", "0", "0", "0", "Z", "\r", "\n", "E", "N", "D", ":", "V", "E", "V",
    "E", "N", "T", "\r", "\n">>
VEVENT_n ==
  <<"B", "E", "G", "I", "N", ":", "V", "E", "V", "E", "N", "T", "\r", "\n",
    "U", "I", "D", ":", "n", "\r", "\n", "D", "T", "S", "T", "A", "R", "T",
    ":", "2", "0", "2", "6", "0", "2", "0", "1", "\r", "\n", "E", "N", "D",
    ":", "V", "E", "V", "E", "N", "T", "\r", "\n">>
VTODO_t ==
  <<"B", "E", "G", "I", "N", ":", "V", "T", "O", "D", "O", "\r", "\n", "U",
    "I", "D", ":", "t", "\r", "\n", "S", "U", "M", "M", "A", "R", "Y", ":",
    "T", "o", "d", "o", "\r", "\n", "E", "N", "D", ":", "V", "T", "O", "D",
    "O", "\r", "\n">>
VEVENT_cut ==
  <<"B", "E", "G", "I", "N", ":", "V", "E", "V", "E", "N", "T", "\r", "\n",
    "U", "I", "D", ":", "u", "\r", "\n">>
TITLE_a == <<"F", "i", "r", "s", "t">>
TITLE_b == <<"S", "e", "c", "o", "n", "d">>
TITLE_t == <<"T", "o", "d", "o">>
CALENDAR_head == <<"B", "E", "G", "I", "N", ":", "V", "C", "A", "L", "E", "N", "D", "A", "R", "\r", "\n">>
CALENDAR_tail == <<"E", "N", "D", ":", "V", "C", "A", "L", "E", "N", "D", "A", "R", "\r", "\n">>
Component(text, isEvent, id, title) ==
  [text |-> text, isEvent |-> isEvent, id |-> id, title |-> title]
Components ==
  {Component(VEVENT_a, TRUE, <<"a">>, TITLE_a),
   Component(VEVENT_b, TRUE, <<"b">>, TITLE_b),
   Component(VEVENT_n, TRUE, <<"n">>, UNTITLED),
   Component(VTODO_t, FALSE, <<"t">>, TITLE_t)}
Unterminated == Component(VEVENT_cut, FALSE, <<"u">>, UNTITLED)
IcsInput(components) ==
  [kind |-> "ics", components |-> components,
   text |-> CALENDAR_head \o Flatten([i \in DOMAIN components |-> components[i].text])
              \o CALENDAR_tail]
\* an object of up to MaxBlocks components, and the same cut off inside one
\* more event
IcsInputs ==
  {IcsInput(cs) : cs \in SeqsUpTo(Components, MaxBlocks)}
    \cup {IcsInput(cs \o <<Unterminated>>) : cs \in SeqsUpTo(Components, MaxBlocks)}
\* a collection of two objects
StoreInputs ==
  {[kind |-> "store", objects |-> <<first, second>>] :
     first \in IcsInputs,
     second \in {IcsInput(<<>>), IcsInput(<<CHOOSE c \in Components : c.id = <<"b">> >>)}}

\* ---- attendee lines ----
MaxAttendees == 2
ORGANIZER ==
  <<"O", "R", "G", "A", "N", "I", "Z", "E", "R">>
SCHEME_mailto ==
  <<"m", "a", "i", "l", "t", "o", ":">>
SCHEME_MAILTO ==
  <<"M", "A", "I", "L", "T", "O", ":">>
SCHEME_Mailto ==
  <<"M", "a", "i", "l", "t", "o", ":">>
SCHEME_urn ==
  <<"u", "r", "n", ":", "u", "u", "i", "d", ":">>
CN_jo ==
  <<"J", "o", " ", "D", "o", "e">>
CN_cy ==
  <<"C", "y">>
CN_di ==
  <<"D", "i">>
PARAM_role ==
  <<";", "R", "O", "L", "E", "=", "C", "H", "A", "I", "R">>
PARAM_rsvp ==
  <<";", "R", "S", "V", "P", "=", "T", "R", "U", "E">>
ADDR_jo ==
  <<"j", "o", "@", "x", ".", "o", "r", "g">>
ADDR_al ==
  <<"a", "l", "@", "x", ".", "o", "r", "g">>
ADDR_bo ==
  <<"B", "o", "@", "x", ".", "o", "r", "g">>
ADDR_cy ==
  <<"c", "y", "@", "x", ".", "o", "r", "g">>
ADDR_di ==
  <<"7">>

\* a property line of a participant: its CN parameter when it has one, its
\* other parameters, and its value, a URI of the given scheme
PersonLine(prop, cn, name, params, scheme, address) ==
  [prop |-> prop, name |-> name, scheme |-> scheme, address |-> address,
   text |-> prop \o (IF IsSome(name) THEN <<";">> \o cn \o Val(name) ELSE <<>>)
              \o params \o <<":">> \o scheme \o address]
PersonLines ==
  {PersonLine(ATTENDEE, CN_EQ, Some(CN_jo), <<>>, SCHEME_mailto, ADDR_jo),
   PersonLine(ATTENDEE, CN_EQ, None, <<>>, SCHEME_mailto, ADDR_al),
   PersonLine(ATTENDEE, CN_EQ, None, PARAM_role, SCHEME_MAILTO, ADDR_bo),
   PersonLine(ATTENDEE, <<"c", "n", "=">>, Some(CN_cy), PARAM_rsvp, SCHEME_Mailto, ADDR_cy),
   PersonLine(ATTENDEE, CN_EQ, Some(CN_di), <<>>, SCHEME_urn, ADDR_di),
   PersonLine(ORGANIZER, CN_EQ, Some(CN_jo), <<>>, SCHEME_mailto, ADDR_jo)}
\* an event with up to MaxAttendees such lines after its UID line
AttendeeInput(lines, eol) ==
  [kind |-> "attendees", lines |-> lines,
   text |-> BEGIN_VEVENT \o eol \o UID \o <<":", "a">> \o eol
              \o Flatten([i \in DOMAIN lines |-> lines[i].text \o eol])
              \o END_VEVENT]
AttendeeInputs ==
  {AttendeeInput(lines, eol) : lines \in SeqsUpTo(PersonLines, MaxAttendees), eol \in EOLs}

\* ---- calendars of events ----
MaxEvents == 3
DTSTART_early ==
  <<"D", "T", "S", "T", "A", "R", "T", ";", "T", "Z", "I", "D", "=", "E",
    "u", "r", "o", "p", "e", "/", "P", "a", "r", "i", "s", ":", "2", "0",
    "2", "6", "0", "1", "3", "0", "T", "0", "9", "0", "0", "0", "0">>
DTSTART_day ==
  <<"D", "T", "S", "T", "A", "R", "T", ";", "V", "A", "L", "U", "E", "=",
    "D", "A", "T", "E", ":", "2", "0", "2", "6", "0", "1", "3", "1">>
DTSTART_late ==
  <<"D", "T", "S", "T", "A", "R", "T", ":", "2", "0", "2", "6", "0", "2",
    "0", "1", "T", "1", "0", "0", "0", "0", "0", "Z">>

\* an event of a calendar: its id, its DTSTART line when it has one, and the
\* rank of the instant the line denotes among those in use
Event(id, dtstart, rank) ==
  [id |-> id, rank |-> rank,
   text |-> CALENDAR_head \o BEGIN_VEVENT \o CRLF \o UID \o <<":">> \o id \o CRLF
              \o (IF IsSome(dtstart) THEN Val(dtstart) \o CRLF ELSE <<>>)
              \o END_VEVENT \o CRLF \o CALENDAR_tail]
EVENT_early == Event(<<"p">>, Some(DTSTART_early), Some(1))
EVENT_day == Event(<<"q">>, Some(DTSTART_day), Some(2))
EVENT_late == Event(<<"r">>, Some(DTSTART_late), Some(3))
EVENT_undated == Event(<<"x">>, None, None)
EVENT_home == Event(<<"h">>, Some(DTSTART_day), Some(2))
\* the sequences of at most n distinct elements of S
Arrangements(S, n) ==
  {xs \in SeqsUpTo(S, n) : \A i, j \in DOMAIN xs : xs[i] = xs[j] => i = j}
\* two calendars: up to MaxEvents distinct events in Work, in any order, and
\* at most one in the other
AgendaInputs ==
  {[kind |-> "agenda", work |-> work, home |-> home] :
     work \in Arrangements({EVENT_early, EVENT_day, EVENT_late, EVENT_undated}, MaxEvents),
     home \in {<<>>, <<EVENT_home>>}}
AgendaOracle(input) ==
  [BaseOracle EXCEPT
     !.calendars = <<CAL_work, CAL_home>>,
     !.objects = [u \in {"/cal/work/", "/cal/home/"} |->
                    Let(IF u = "/cal/work/" THEN input.work ELSE input.home, LAMBDA events :
                      [i \in DOMAIN events |-> [url |-> <<u, events[i].id>>,
                                                data |-> events[i].text]])]]
\* the calendars asked for: all, one by url, one by display name, none
CalendarIds == {None, Some("/cal/work/"), Some("Work"), Some("/cal/home/"), Some("Nope")}
EventLimits == {None, Some(0), Some(1), Some(2)}

\* the store a collection input stands for: one calendar holding its objects
OBJECT_URLS == <<"/cal/work/1.ics", "/cal/work/2.ics">>
StoreOracle(objects) ==
  [BaseOracle EXCEPT
     !.calendars = <<CAL_work>>,
     !.objects = [u \in {"/cal/work/"} |->
                    [i \in DOMAIN objects |-> [url |-> OBJECT_URLS[i],
                                               data |-> objects[i].text]]]]
\* the event ids asked for: those of the components, an unknown one, an
\* object's url
EventIds == {"a", "b", "n", "t", "u", "zz", "/cal/work/1.ics"}

InitICS ==
  /\ env = [FASTMAIL_API_TOKEN |-> Some("token"), FASTMAIL_ACCOUNT_ID |-> None,
            FASTMAIL_CALDAV_API_TOKEN |-> Some("password")]
  /\ jmapClient = FALSE
  /\ session = None
  /\ sessionGets = 0
  /\ caldavClient = FALSE
  /\ dav = [client |-> FALSE, loggedIn |-> FALSE]
  /\ \E input \in [kind : {"date"}, text : DateInputs] \cup PropInputs \cup IcsInputs
                    \cup StoreInputs \cup AttendeeInputs
                    \cup AgendaInputs :
       last = [op |-> "", input |-> input, arg |-> None, ok |-> TRUE,
               result |-> None, err |-> None]

\* a function of the parser returned
Returned(op, arg, result) ==
  /\ last' = [last EXCEPT !.op = op, !.arg = arg, !.result = result]
  /\ UNCHANGED <<env, jmapClient, session, sessionGets, caldavClient, dav>>
\* an operation of the CalDAV client resolved or threw
Settled(op, arg, r) ==
  /\ last' = [last EXCEPT !.op = op, !.arg = arg, !.ok = r.ok,
                          !.result = IF r.ok THEN Some(r.val) ELSE None,
                          !.err = IF r.ok THEN None ELSE Some(r.err)]
  /\ dav' = r.ctx.dav
  /\ UNCHANGED <<env, jmapClient, session, sessionGets, caldavClient>>

ics_formatICSDate ==
  /\ last.op = "" /\ last.input.kind = "date"
  /\ Returned("formatICSDate", None, Some(formatICSDate(last.input.text)))

ics_extractProp ==
  /\ last.op = "" /\ last.input.kind = "vevent"
  /\ \E prop \in DateProps \cup TextProps :
       Returned("extractProp", Some(prop), extractProp(last.input.text, prop))

ics_parseICS ==
  /\ last.op = "" /\ last.input.kind \in {"vevent", "ics"}
  /\ Returned("parseICS", None, parseICS(last.input.text))

ics_extractAttendees ==
  /\ last.op = "" /\ last.input.kind = "attendees"
  /\ Returned("extractAttendees", None, Some(extractAttendees(last.input.text)))

caldav_getCalendarEvents ==
  /\ last.op = "" /\ last.input.kind \in {"store", "agenda"}
  /\ IF last.input.kind = "store"
     THEN Settled("getCalendarEvents", None,
                  caldavGetCalendarEvents(Ctx, StoreOracle(last.input.objects),
                                          None, None, None, None))
     ELSE \E calendarId \in CalendarIds, limit \in EventLimits :
            Settled("getCalendarEvents", Some([calendarId |-> calendarId, limit |-> limit]),
                    caldavGetCalendarEvents(Ctx, AgendaOracle(last.input),
                                            calendarId, limit, None, None))

caldav_getCalendarEventById ==
  /\ last.op = "" /\ last.input.kind = "store"
  /\ \E eventId \in EventIds :
       Settled("getCalendarEventById", Some(eventId),
               caldavGetCalendarEventById(Ctx, StoreOracle(last.input.objects), eventId))

NextICS ==
  \/ ics_formatICSDate
  \/ ics_extractProp
  \/ ics_parseICS
  \/ ics_extractAttendees
  \/ caldav_getCalendarEvents
  \/ caldav_getCalendarEventById

SpecICS == InitICS /\ [][NextICS]_vars

\* the components of a calendar object that are whole VEVENT blocks, in order
EventsOf(object) == SelectSeq(object.components, LAMBDA c : c.isEvent)
\* the objects of a collection that hold a VEVENT block, in order
WithEvent(objects) == SelectSeq(objects, LAMBDA object : EventsOf(object) # <<>>)
\* the objects of a collection, each with its url, that eventId designates
Designated(objects, eventId) ==
  SelectSeq([i \in DOMAIN objects |-> [url |-> OBJECT_URLS[i], object |-> objects[i]]],
            LAMBDA x : /\ EventsOf(x.object) # <<>>
                       /\ (Str(EventsOf(x.object)[1].id) = eventId \/ x.url = eventId))
\* C15: parseICS returns no result exactly for a text without a whole VEVENT
\* block and otherwise the event of the first block alone (its id and title,
\* whatever blocks and other components follow or precede); getCalendarEvents
\* returns one event per object that holds a block, skipping the others, and
\* getCalendarEventById returns the first designated object's event or fails
\* with its not-found error, never on an object without a block.
C15_FirstBlockOrNothing ==
  /\ (last.op = "parseICS" /\ last.input.kind = "ics") =>
       IF EventsOf(last.input) = <<>> THEN last.result = None
       ELSE /\ IsSome(last.result)
            /\ Val(last.result).id = EventsOf(last.input)[1].id
            /\ Val(last.result).title = EventsOf(last.input)[1].title
  /\ (last.op = "getCalendarEvents" /\ last.input.kind = "store") =>
       /\ last.ok
       /\ Len(Val(last.result)) = Len(WithEvent(last.input.objects))
       /\ {e.id : e \in ToSet(Val(last.result))}
            = {EventsOf(object)[1].id : object \in ToSet(WithEvent(last.input.objects))}
  /\ last.op = "getCalendarEventById" =>
       IF Designated(last.input.objects, Val(last.arg)) = <<>>
       THEN /\ ~last.ok
            /\ Val(last.err) = Error(<<"Calendar event not found: ", Val(last.arg)>>)
       ELSE /\ last.ok
            /\ Val(last.result).id
                 = EventsOf(Designated(last.input.objects, Val(last.arg))[1].object)[1].id
\* the events of a collection were listed although its first object, a to-do
\* followed by a cut-off event, holds no VEVENT block
C15_Witness ==
  /\ last.op = "getCalendarEvents" /\ last.input.kind = "store" /\ last.ok
  /\ Len(last.input.objects[1].components) = 2
  /\ EventsOf(last.input.objects[1]) = <<>>
  /\ Len(Val(last.result)) = 1

\* the text after the last colon of a property line
AfterFinalColon(line) ==
  SubSeq(line, Last({i \in DOMAIN line : line[i] = ":"}) + 1, Len(line))
\* extractProp was asked for the property of the line under test
ExtractedTested ==
  /\ last.op = "extractProp"
  /\ Val(last.arg) = last.input.name
\* C16: for a date-typed property, extractProp returns the text after the
\* final colon of the property line, whether the line has parameters or not.
C16_AfterFinalColon ==
  (ExtractedTested /\ last.input.name \in DateProps) =>
    /\ IsSome(last.result)
    /\ Val(last.result) = AfterFinalColon(last.input.line)

\* the field of a parsed event that a text property fills
FieldOf(event, name) ==
  CASE name = UID -> event.id
    [] name = SUMMARY -> event.title
    [] name = DESCRIPTION -> event.description
    [] name = LOCATION -> event.location
\* text occurs somewhere in field
Contains(field, text) == \E i \in DOMAIN field : matchesAt(field, i, text)
\* C17: for a text property written with parameters, PROP;PARAM=...:value,
\* the field of the parsed event is the value alone, and the parameter text
\* does not occur in it.
C17_ValueWithoutParameters ==
  (/\ last.op = "parseICS" /\ last.input.kind = "vevent"
   /\ last.input.name \in TextProps
   /\ last.input.params # <<>> /\ last.input.folds = 0) =>
    /\ IsSome(last.result)
    /\ FieldOf(Val(last.result), last.input.name) = last.input.value.meant
    /\ ~Contains(FieldOf(Val(last.result), last.input.name), Tail(last.input.params))

\* C18: for a text property, the extracted value is the first line's value
\* joined with every continuation line, the line break and the leading space
\* or tab removed, with backslash-escaped commas and newlines unescaped.
C18_UnfoldedAndUnescaped ==
  (/\ ExtractedTested /\ last.input.name \in TextProps
   /\ last.input.params = <<>>) =>
    /\ IsSome(last.result)
    /\ Val(last.result) = last.input.value.meant \o Pieces(last.input.folds)

\* the value formatICSDate was given and what it returned
DateGiven == last.input.text
DateReturned == Val(last.result)
\* text without the characters at the given positions
Without(text, positions) ==
  LET keep == {i \in DOMAIN text : i \notin positions}
      F[k \in 0..Len(text)] ==
        IF k = 0 THEN <<>>
        ELSE IF k \in keep THEN Append(F[k - 1], text[k]) ELSE F[k - 1]
  IN F[Len(text)]
AllDigits(text) == \A i \in DOMAIN text : text[i] \in Digit
\* returned is given split as a bare date: hyphens after its 4th and 6th
\* characters and nothing else changed
SplitAsDate(given, returned) ==
  /\ Len(returned) = Len(given) + 2
  /\ returned[5] = "-" /\ returned[8] = "-"
  /\ Without(returned, {5, 8}) = given
\* C19: formatICSDate splits a value into the bare-date form YYYY-MM-DD
\* exactly when the value is 8 characters that are all digits.
C19_DateFormOnlyForEightDigits ==
  last.op = "formatICSDate" =>
    (SplitAsDate(DateGiven, DateReturned) <=> (Len(DateGiven) = 8 /\ AllDigits(DateGiven)))

\* given has the form YYYYMMDDThhmmss with an optional trailing Z
CompactDateTime(given) ==
  /\ Len(given) \in {15, 16}
  /\ AllDigits(SubSeq(given, 1, 8)) /\ given[9] = "T" /\ AllDigits(SubSeq(given, 10, 15))
  /\ Len(given) = 16 => given[16] = "Z"
\* C20: a value YYYYMMDDThhmmss with an optional trailing Z is returned as
\* YYYY-MM-DDThh:mm:ss: hyphens and colons inserted, the same characters in
\* the same order otherwise, ending in Z exactly when the value did.
C20_DateTimeReformatted ==
  (last.op = "formatICSDate" /\ CompactDateTime(DateGiven)) =>
    /\ Len(DateReturned) = Len(DateGiven) + 4
    /\ DateReturned[5] = "-" /\ DateReturned[8] = "-"
    /\ DateReturned[14] = ":" /\ DateReturned[17] = ":"
    /\ Without(DateReturned, {5, 8, 14, 17}) = DateGiven
    /\ (DateReturned[Len(DateReturned)] = "Z") <=> (DateGiven[Len(DateGiven)] = "Z")
\* a local date-time, without Z, was reformatted and got no Z
C20_Witness ==
  /\ last.op = "formatICSDate"
  /\ DateGiven = DATE_a \o <<"T">> \o TIME_a
  /\ DateReturned = HYPHEN_localDateTime


\* ---- C21 ----
\* the entry a participant line stands for: one for an ATTENDEE line whose
\* value is a mailto URI in any letter case, none for any other line
EntryOf(line) ==
  IF line.prop # ATTENDEE \/ [i \in DOMAIN line.scheme |-> lowerChar(line.scheme[i])] # MAILTO
  THEN <<>>
  ELSE IF IsSome(line.name) THEN <<[email |-> line.address, name |-> Val(line.name)]>>
  ELSE <<[email |-> line.address]>>
AttendeesExtracted == last.op = "extractAttendees"
\* C21: extractAttendees returns, in the order of the lines, one entry for
\* every ATTENDEE line with a mailto address in any letter case, holding that
\* address and the text of the CN parameter when there is one, and nothing
\* for a line without a mailto address or a line of another property
C21_OneEntryPerMailtoLine ==
  AttendeesExtracted =>
    Val(last.result) = Flatten([i \in DOMAIN last.input.lines |-> EntryOf(last.input.lines[i])])
\* two ATTENDEE lines were read, an upper-case MAILTO without a name and then
\* a named one, and each gave its entry, in that order
C21_Witness ==
  /\ AttendeesExtracted
  /\ Len(last.input.lines) = 2
  /\ last.input.lines[1].scheme = SCHEME_MAILTO
  /\ last.input.lines[2].scheme = SCHEME_mailto /\ last.input.lines[2].prop = ATTENDEE
  /\ Val(last.result) = <<[email |-> ADDR_bo], [email |-> ADDR_jo, name |-> CN_jo]>>


\* ---- C22 ----
\* the filters of the Email/query calls an advanced_search invocation sent
QueryFilters ==
  {At(CallsOf(p), 0)[2].filter : p \in {q \in Posts : At(CallsOf(q), 0)[1] = "Email/query"}}
\* the argument each filter field other than the two keyword fields comes from
FILTER_ARGUMENT ==
  [text |-> "query", from |-> "from", to |-> "to", subject |-> "subject",
   hasAttachment |-> "hasAttachment", inMailbox |-> "mailboxId", after |-> "after",
   before |-> "before"]
Given(field) ==
  IF field = "hasAttachment" THEN IsSome(last.args.hasAttachment)
  ELSE Truthy(last.args[FILTER_ARGUMENT[field]])
\* C22: the filter advancedSearch sends holds notKeyword '$seen' and no
\* hasKeyword when isUnread is true, hasKeyword '$seen' and no notKeyword when
\* it is false, and neither when it is absent; every other field is present
\* exactly when its own argument is given and holds that argument, whatever
\* isUnread is
C22_OneKeywordField ==
  last.op = "advanced_search" =>
    \A filter \in QueryFilters :
      /\ DOMAIN filter \subseteq DOMAIN FILTER_ARGUMENT \cup {"hasKeyword", "notKeyword"}
      /\ ("notKeyword" \in DOMAIN filter) = (last.args.isUnread = Some(TRUE))
      /\ ("hasKeyword" \in DOMAIN filter) = (last.args.isUnread = Some(FALSE))
      /\ \A k \in DOMAIN filter \cap {"hasKeyword", "notKeyword"} : filter[k] = Some("$seen")
      /\ \A field \in DOMAIN FILTER_ARGUMENT :
           /\ (field \in DOMAIN filter) = Given(field)
           /\ field \in DOMAIN filter => filter[field] = last.args[FILTER_ARGUMENT[field]]
\* a search for unread mail with every other filter given was sent
C22_Witness ==
  /\ last.op = "advanced_search"
  /\ last.args.isUnread = Some(TRUE)
  /\ Truthy(last.args.subject)
  /\ \E filter \in QueryFilters : DOMAIN filter = DOMAIN FILTER_ARGUMENT \cup {"notKeyword"}


\* ---- C23 ----
\* the invocation sent a batch holding an Email/set or EmailSubmission/set call
SentCreateOrSubmit ==
  \E p \in Posts : \E c \in DOMAIN CallsOf(p) :
    CallsOf(p)[c][1] \in {"Email/set", "EmailSubmission/set"}
Answered(method) ==
  \E p \in Posts : last.net[p].ok /\ CallsOf(p)[1][1] = method
\* the from address is one of the identities the account answered with,
\* letter case apart
FromIsIdentity ==
  \E id \in ListedBy("Identity/get") : toLowerCase(id.email) = toLowerCase(Val(last.args.from))
\* what the account answered rules the message out: a from address given that
\* is no identity's, no identity at all, or no Drafts or no Sent mailbox
CannotSend ==
  \/ /\ Answered("Identity/get")
     /\ \/ ListedBy("Identity/get") = {}
        \/ Truthy(last.args.from) /\ ~FromIsIdentity
  \/ /\ Answered("Mailbox/get")
     /\ DraftsIds = {} \/ SentIds = {}
\* C23: sendEmail given a from address that is, letter case apart, the email of
\* no identity of the account, or run against an account without identities or
\* without a Drafts or a Sent mailbox, fails, and no invocation in which one of
\* these holds sends an Email/set or EmailSubmission/set call: whenever such a
\* call was sent, the identities and both mailboxes had been found
C23_NothingSentWithoutIdentityAndMailboxes ==
  IsSend =>
    /\ CannotSend => ~last.ok /\ ~SentCreateOrSubmit
    /\ SentCreateOrSubmit =>
         /\ Answered("Identity/get") /\ ListedBy("Identity/get") # {}
         /\ Truthy(last.args.from) => FromIsIdentity
         /\ Answered("Mailbox/get") /\ DraftsIds # {} /\ SentIds # {}
\* a message from an address that is no identity of the account was refused
\* after the identities were read, with nothing sent
C23_Witness ==
  /\ IsSend /\ ~last.ok
  /\ Truthy(last.args.from) /\ Answered("Identity/get") /\ ~FromIsIdentity
  /\ ListedBy("Identity/get") # {}
  /\ ~SentCreateOrSubmit


\* ---- C24 ----
READ_METHODS == {"Mailbox/get", "Email/query", "Email/get"}
\* the method names of the calls the invocation sent
MethodsSent == UNION {{CallsOf(p)[c][1] : c \in DOMAIN CallsOf(p)} : p \in Posts}
Rehearsal == last.op = "test_bulk_operations" /\ last.args.dryRun \in {None, Some(TRUE)}
\* C24: test_bulk_operations with dryRun true or omitted sends nothing but the
\* session fetch and batches of Mailbox/get, Email/query and Email/get calls,
\* and no Email/set, whatever the limit and whatever the inbox holds
C24_DryRunOnlyReads ==
  Rehearsal =>
    /\ \A k \in DOMAIN last.net : last.net[k].kind \in {"GET", "POST"}
    /\ MethodsSent \subseteq READ_METHODS
    /\ "Email/set" \notin MethodsSent
\* a rehearsal with dryRun omitted found emails, reported them and sent the
\* mailbox lookup and the query
C24_Witness ==
  /\ Rehearsal /\ last.ok
  /\ last.args.dryRun = None
  /\ MethodsSent = READ_METHODS
  /\ last.val.content[1] = "BULK OPERATIONS TEST (DRY RUN)"


\* ---- C25 ----
AgendaListed ==
  last.op = "getCalendarEvents" /\ last.input.kind = "agenda" /\ last.ok
\* the events of the calendars the call designates, from the input's parts
TargetEvents ==
  Let(Val(last.arg).calendarId, LAMBDA calendarId :
    CASE calendarId = None -> ToSet(last.input.work) \cup ToSet(last.input.home)
      [] calendarId \in {Some("/cal/work/"), Some("Work")} -> ToSet(last.input.work)
      [] calendarId = Some("/cal/home/") -> ToSet(last.input.home)
      [] OTHER -> {})
\* the ids of the events returned, in order
ReturnedIds == [i \in DOMAIN Val(last.result) |-> Val(last.result)[i].id]
RankOf(id) == (CHOOSE e \in TargetEvents : e.id = id).rank
Earlier(a, b) == IsSome(a) /\ IsSome(b) /\ Val(a) < Val(b)
\* C25: getCalendarEvents returns events of the target calendars only, each
\* once, at most limit of them (50 by default) and all of them when there are
\* no more than limit; no event returned starts earlier than one returned
\* before it, and no event left out starts earlier than one returned
C25_EarliestByStart ==
  AgendaListed =>
    /\ ToSet(ReturnedIds) \subseteq {e.id : e \in TargetEvents}
    /\ \A i, j \in DOMAIN ReturnedIds : ReturnedIds[i] = ReturnedIds[j] => i = j
    /\ Len(ReturnedIds) = Min(Default(Val(last.arg).limit, 50), Cardinality(TargetEvents))
    /\ \A i, j \in DOMAIN ReturnedIds :
         i < j => ~Earlier(RankOf(ReturnedIds[j]), RankOf(ReturnedIds[i]))
    /\ \A e \in TargetEvents : \A i \in DOMAIN ReturnedIds :
         e.id \notin ToSet(ReturnedIds) => ~Earlier(e.rank, RankOf(ReturnedIds[i]))


\* ---- C26 ----
CALDAV_READS == {"list_calendars", "list_calendar_events", "get_calendar_event"}
\* the invocation that just settled called getClient of the CalDAV client
CalledGetClient ==
  /\ last.op \in CALDAV_READS /\ caldavClient
  /\ last.op = "get_calendar_event" => Truthy(last.args.eventId)
LoginAttempted == \E k \in DOMAIN last.net : last.net[k].kind = "CALDAV" /\ last.net[k].op = "login"
\* C26: the handle getClient keeps and returns has completed a login, and a
\* calendar read that finds the kept handle without a completed login
\* attempts the login again
C26_HandleHasLoggedIn ==
  /\ [](dav.client => dav.loggedIn)
  /\ [][(~dav.loggedIn /\ CalledGetClient') => LoginAttempted']_vars


\* ---- C27 ----
\* an answered response lists the submission as created
SubmissionCreated ==
  \E entry \in AnsweredEntries :
    /\ entry[1] = "EmailSubmission/set"
    /\ "created" \in DOMAIN entry[2]
    /\ IsSome(entry[2].created)
    /\ "submission" \in DOMAIN Val(entry[2].created)
\* C27: sendEmail returns normally, and send_email reports success, only if
\* the EmailSubmission/set response lists the submission as created; with a
\* response holding neither a created submission nor a notCreated entry the
\* operation fails
C27_SuccessOnlyIfSubmitted ==
  (IsSend /\ last.ok) => SubmissionCreated


\* ---- C28 ----
\* the envelopes of the submissions the invocation sent
Envelopes ==
  {CallsOf(p)[2][2].create.submission.envelope :
     p \in {q \in Posts : /\ Len(CallsOf(q)) = 2
                          /\ CallsOf(q)[2][1] = "EmailSubmission/set"}}
\* the addresses the message is addressed to in to, cc and bcc
Addressees ==
  ToSet(Default(last.args.to, <<>>)) \cup ToSet(Default(last.args.cc, <<>>))
    \cup ToSet(Default(last.args.bcc, <<>>))
\* C28: the envelope recipients of the submission sendEmail sends are exactly
\* the addresses given in to, cc and bcc
C28_RecipientsAreAllAddressees ==
  IsSend =>
    \A envelope \in Envelopes : {r.email : r \in ToSet(envelope.rcptTo)} = Addressees


\* ---- C29 ----
\* the keywords an email may carry before the update
KEYWORDS == {"$seen", "$flagged", "$answered", "$draft"}
\* what an Email/set update leaves of an email's keywords (RFC 8620 5.3): a
\* patch holding the property keywords replaces the whole set by the names it
\* lists, a patch without it leaves the set as it was
keywordsAfter(before, patch) ==
  IF "keywords" \in DOMAIN patch THEN DOMAIN patch.keywords ELSE before
MARK_READ == {"mark_email_read", "bulk_mark_read", "bulkMarkRead"}
\* the ids the operation was given
MarkedIds ==
  IF last.op = "mark_email_read" THEN {Val(last.args.emailId)}
  ELSE ToSet(Val(last.args.emailIds))
\* the patches of the updates the invocation sent, by email id
PatchesSent ==
  {CallsOf(u[1])[u[2]][2].update : u \in UpdateCalls}
\* C29: the update markEmailRead and bulkMarkRead send changes nothing but the
\* seen flag of the emails named: whatever keywords such an email carries, it
\* carries the same ones afterwards apart from $seen, the patch does not touch
\* its mailboxes, and the update names no other email
C29_OnlySeenChanges ==
  last.op \in MARK_READ =>
    \A update \in PatchesSent :
      /\ DOMAIN update \subseteq MarkedIds
      /\ \A id \in DOMAIN update :
           /\ "mailboxIds" \notin DOMAIN update[id]
           /\ \A before \in SUBSET KEYWORDS :
                keywordsAfter(before, update[id]) \ {"$seen"} = before \ {"$seen"}


\* ---- C30 ----
\* the POSTs of the invocation that carry an Email/set update, in the order sent
WritePosts == {p \in Posts : \E u \in UpdateCalls : u[1] = p}
UpdateOf(p) == CallsOf(p)[1][2].update
\* an executed test whose report gives both writes as done
BothWritesSucceeded ==
  /\ last.op = "test_bulk_operations" /\ last.args.dryRun = Some(FALSE) /\ last.ok
  /\ last.val.content[1] = "BULK OPERATIONS TEST (EXECUTED)"
  /\ \A k \in 1..2 : last.val.content[2][k].status = "SUCCESS"
\* C30: an executed test sends two updates one after the other, the first
\* marking the tested emails read and the second marking the same emails
\* unread, and when both succeed each tested email is read afterwards exactly
\* if it was read before
C30_ReadStateRestored ==
  BothWritesSucceeded =>
    /\ Cardinality(WritePosts) = 2
    /\ \E first, second \in WritePosts :
         /\ first < second
         /\ last.net[first].ok /\ last.net[second].ok
         /\ DOMAIN UpdateOf(first) = DOMAIN UpdateOf(second)
         /\ \A id \in DOMAIN UpdateOf(first) :
              /\ UpdateOf(first)[id] = [keywords |-> KEYWORDS_SEEN]
              /\ UpdateOf(second)[id] = [keywords |-> EmptyObject]
              /\ \A before \in SUBSET KEYWORDS :
                   ("$seen" \in keywordsAfter(keywordsAfter(before, UpdateOf(first)[id]),
                                              UpdateOf(second)[id]))
                     = ("$seen" \in before)

====
